---- MODULE Spec2Model ----
(***************************************************************************)
(* A model of xiuren.py: the crawl-and-download pipeline of main,          *)
(* get_album_list, get_all_photos, save_photos and download_image.         *)
(* Text (URLs, titles, file names) is modelled as sequences of characters  *)
(* so that the string operations of the code (strip, rstrip, urljoin,      *)
(* splitext, os.path.join, re.sub, re.search, int, the format spec 03) are *)
(* computed and not assumed. A character is the one-character string for   *)
(* printable ASCII and for the tab, line feed, form feed and carriage      *)
(* return ("\t", "\n", "\f", "\r"), and the string "U+" followed by its    *)
(* code point in at least four upper-case hexadecimal digits for every     *)
(* other character ("U+0663", "U+000B", "U+1D7CE").                        *)
(***************************************************************************)
EXTENDS Integers, Sequences, FiniteSets, TLC

VARIABLES
    start,        \* main's parameter start
    end,          \* main's parameter end (rebound by get_total_pages)
    link_max_workers, \* get_all_photos' parameter max_workers
    dl_max_workers,   \* save_photos' parameter max_workers
    discovered,   \* history: end was rebound by get_total_pages (line 157)
    soup,         \* get_total_pages' local soup: its ".page a" anchors
    pc,           \* where the main thread is
    page,         \* the loop variable of "for page in range(start, end + 1)"
    albums,       \* the entries returned by get_album_list(page)
    ai,           \* 1-based position of "for album in albums"
    listed,       \* history: the pages get_album_list was called with
    attempted,    \* history: positions of the entries of this page started
    linkTasks,    \* the futures of get_all_photos' pool
    photos,       \* get_all_photos' list photos
    dlTasks,      \* the futures of save_photos' pool
    failed_list,  \* save_photos' list failed_list
    dirs,         \* file system: the directories that exist (the download
                  \* root and the folders of the entries)
    files,        \* file system: image path -> "partial" | "complete"
    failedTxt,    \* file system: folder -> the lines handed to f.write of its
                  \* failed.txt; the file holds them once it is closed, and a
                  \* piece of their text (cut anywhere) after a failed write
    albumLog,     \* the outcome printed for the entry processed last
    interrupted   \* a KeyboardInterrupt was delivered to the main thread

vars == <<start, end, link_max_workers, dl_max_workers, discovered, soup, pc, page, albums, ai, listed, attempted,
          linkTasks, photos, dlTasks, failed_list, dirs, files, failedTxt,
          albumLog, interrupted>>

----------------------------------------------------------------------------
(* Bounds of the model.                                                    *)

\* The largest listing page number: of the end argument and of the pager.
MaxPage == 2

----------------------------------------------------------------------------
(* Text helpers.                                                           *)

Digit == <<"0", "1", "2", "3", "4", "5", "6", "7", "8", "9">>

\* The decimal digits of Unicode (category Nd) after the ASCII ones, each
\* script's digits from zero to nine: what \d of re matches and int() reads.
ScriptDigits == <<
    <<"U+0660", "U+0661", "U+0662", "U+0663", "U+0664",
      "U+0665", "U+0666", "U+0667", "U+0668", "U+0669">>,
    <<"U+06F0", "U+06F1", "U+06F2", "U+06F3", "U+06F4",
      "U+06F5", "U+06F6", "U+06F7", "U+06F8", "U+06F9">>,
    <<"U+07C0", "U+07C1", "U+07C2", "U+07C3", "U+07C4",
      "U+07C5", "U+07C6", "U+07C7", "U+07C8", "U+07C9">>,
    <<"U+0966", "U+0967", "U+0968", "U+0969", "U+096A",
      "U+096B", "U+096C", "U+096D", "U+096E", "U+096F">>,
    <<"U+09E6", "U+09E7", "U+09E8", "U+09E9", "U+09EA",
      "U+09EB", "U+09EC", "U+09ED", "U+09EE", "U+09EF">>,
    <<"U+0A66", "U+0A67", "U+0A68", "U+0A69", "U+0A6A",
      "U+0A6B", "U+0A6C", "U+0A6D", "U+0A6E", "U+0A6F">>,
    <<"U+0AE6", "U+0AE7", "U+0AE8", "U+0AE9", "U+0AEA",
      "U+0AEB", "U+0AEC", "U+0AED", "U+0AEE", "U+0AEF">>,
    <<"U+0B66", "U+0B67", "U+0B68", "U+0B69", "U+0B6A",
      "U+0B6B", "U+0B6C", "U+0B6D", "U+0B6E", "U+0B6F">>,
    <<"U+0BE6", "U+0BE7", "U+0BE8", "U+0BE9", "U+0BEA",
      "U+0BEB", "U+0BEC", "U+0BED", "U+0BEE", "U+0BEF">>,
    <<"U+0C66", "U+0C67", "U+0C68", "U+0C69", "U+0C6A",
      "U+0C6B", "U+0C6C", "U+0C6D", "U+0C6E", "U+0C6F">>,
    <<"U+0CE6", "U+0CE7", "U+0CE8", "U+0CE9", "U+0CEA",
      "U+0CEB", "U+0CEC", "U+0CED", "U+0CEE", "U+0CEF">>,
    <<"U+0D66", "U+0D67", "U+0D68", "U+0D69", "U+0D6A",
      "U+0D6B", "U+0D6C", "U+0D6D", "U+0D6E", "U+0D6F">>,
    <<"U+0DE6", "U+0DE7", "U+0DE8", "U+0DE9", "U+0DEA",
      "U+0DEB", "U+0DEC", "U+0DED", "U+0DEE", "U+0DEF">>,
    <<"U+0E50", "U+0E51", "U+0E52", "U+0E53", "U+0E54",
      "U+0E55", "U+0E56", "U+0E57", "U+0E58", "U+0E59">>,
    <<"U+0ED0", "U+0ED1", "U+0ED2", "U+0ED3", "U+0ED4",
      "U+0ED5", "U+0ED6", "U+0ED7", "U+0ED8", "U+0ED9">>,
    <<"U+0F20", "U+0F21", "U+0F22", "U+0F23", "U+0F24",
      "U+0F25", "U+0F26", "U+0F27", "U+0F28", "U+0F29">>,
    <<"U+1040", "U+1041", "U+1042", "U+1043", "U+1044",
      "U+1045", "U+1046", "U+1047", "U+1048", "U+1049">>,
    <<"U+1090", "U+1091", "U+1092", "U+1093", "U+1094",
      "U+1095", "U+1096", "U+1097", "U+1098", "U+1099">>,
    <<"U+17E0", "U+17E1", "U+17E2", "U+17E3", "U+17E4",
      "U+17E5", "U+17E6", "U+17E7", "U+17E8", "U+17E9">>,
    <<"U+1810", "U+1811", "U+1812", "U+1813", "U+1814",
      "U+1815", "U+1816", "U+1817", "U+1818", "U+1819">>,
    <<"U+1946", "U+1947", "U+1948", "U+1949", "U+194A",
      "U+194B", "U+194C", "U+194D", "U+194E", "U+194F">>,
    <<"U+19D0", "U+19D1", "U+19D2", "U+19D3", "U+19D4",
      "U+19D5", "U+19D6", "U+19D7", "U+19D8", "U+19D9">>,
    <<"U+1A80", "U+1A81", "U+1A82", "U+1A83", "U+1A84",
      "U+1A85", "U+1A86", "U+1A87", "U+1A88", "U+1A89">>,
    <<"U+1A90", "U+1A91", "U+1A92", "U+1A93", "U+1A94",
      "U+1A95", "U+1A96", "U+1A97", "U+1A98", "U+1A99">>,
    <<"U+1B50", "U+1B51", "U+1B52", "U+1B53", "U+1B54",
      "U+1B55", "U+1B56", "U+1B57", "U+1B58", "U+1B59">>,
    <<"U+1BB0", "U+1BB1", "U+1BB2", "U+1BB3", "U+1BB4",
      "U+1BB5", "U+1BB6", "U+1BB7", "U+1BB8", "U+1BB9">>,
    <<"U+1C40", "U+1C41", "U+1C42", "U+1C43", "U+1C44",
      "U+1C45", "U+1C46", "U+1C47", "U+1C48", "U+1C49">>,
    <<"U+1C50", "U+1C51", "U+1C52", "U+1C53", "U+1C54",
      "U+1C55", "U+1C56", "U+1C57", "U+1C58", "U+1C59">>,
    <<"U+A620", "U+A621", "U+A622", "U+A623", "U+A624",
      "U+A625", "U+A626", "U+A627", "U+A628", "U+A629">>,
    <<"U+A8D0", "U+A8D1", "U+A8D2", "U+A8D3", "U+A8D4",
      "U+A8D5", "U+A8D6", "U+A8D7", "U+A8D8", "U+A8D9">>,
    <<"U+A900", "U+A901", "U+A902", "U+A903", "U+A904",
      "U+A905", "U+A906", "U+A907", "U+A908", "U+A909">>,
    <<"U+A9D0", "U+A9D1", "U+A9D2", "U+A9D3", "U+A9D4",
      "U+A9D5", "U+A9D6", "U+A9D7", "U+A9D8", "U+A9D9">>,
    <<"U+A9F0", "U+A9F1", "U+A9F2", "U+A9F3", "U+A9F4",
      "U+A9F5", "U+A9F6", "U+A9F7", "U+A9F8", "U+A9F9">>,
    <<"U+AA50", "U+AA51", "U+AA52", "U+AA53", "U+AA54",
      "U+AA55", "U+AA56", "U+AA57", "U+AA58", "U+AA59">>,
    <<"U+ABF0", "U+ABF1", "U+ABF2", "U+ABF3", "U+ABF4",
      "U+ABF5", "U+ABF6", "U+ABF7", "U+ABF8", "U+ABF9">>,
    <<"U+FF10", "U+FF11", "U+FF12", "U+FF13", "U+FF14",
      "U+FF15", "U+FF16", "U+FF17", "U+FF18", "U+FF19">>,
    <<"U+104A0", "U+104A1", "U+104A2", "U+104A3", "U+104A4",
      "U+104A5", "U+104A6", "U+104A7", "U+104A8", "U+104A9">>,
    <<"U+10D30", "U+10D31", "U+10D32", "U+10D33", "U+10D34",
      "U+10D35", "U+10D36", "U+10D37", "U+10D38", "U+10D39">>,
    <<"U+11066", "U+11067", "U+11068", "U+11069", "U+1106A",
      "U+1106B", "U+1106C", "U+1106D", "U+1106E", "U+1106F">>,
    <<"U+110F0", "U+110F1", "U+110F2", "U+110F3", "U+110F4",
      "U+110F5", "U+110F6", "U+110F7", "U+110F8", "U+110F9">>,
    <<"U+11136", "U+11137", "U+11138", "U+11139", "U+1113A",
      "U+1113B", "U+1113C", "U+1113D", "U+1113E", "U+1113F">>,
    <<"U+111D0", "U+111D1", "U+111D2", "U+111D3", "U+111D4",
      "U+111D5", "U+111D6", "U+111D7", "U+111D8", "U+111D9">>,
    <<"U+112F0", "U+112F1", "U+112F2", "U+112F3", "U+112F4",
      "U+112F5", "U+112F6", "U+112F7", "U+112F8", "U+112F9">>,
    <<"U+11450", "U+11451", "U+11452", "U+11453", "U+11454",
      "U+11455", "U+11456", "U+11457", "U+11458", "U+11459">>,
    <<"U+114D0", "U+114D1", "U+114D2", "U+114D3", "U+114D4",
      "U+114D5", "U+114D6", "U+114D7", "U+114D8", "U+114D9">>,
    <<"U+11650", "U+11651", "U+11652", "U+11653", "U+11654",
      "U+11655", "U+11656", "U+11657", "U+11658", "U+11659">>,
    <<"U+116C0", "U+116C1", "U+116C2", "U+116C3", "U+116C4",
      "U+116C5", "U+116C6", "U+116C7", "U+116C8", "U+116C9">>,
    <<"U+11730", "U+11731", "U+11732", "U+11733", "U+11734",
      "U+11735", "U+11736", "U+11737", "U+11738", "U+11739">>,
    <<"U+118E0", "U+118E1", "U+118E2", "U+118E3", "U+118E4",
      "U+118E5", "U+118E6", "U+118E7", "U+118E8", "U+118E9">>,
    <<"U+11950", "U+11951", "U+11952", "U+11953", "U+11954",
      "U+11955", "U+11956", "U+11957", "U+11958", "U+11959">>,
    <<"U+11C50", "U+11C51", "U+11C52", "U+11C53", "U+11C54",
      "U+11C55", "U+11C56", "U+11C57", "U+11C58", "U+11C59">>,
    <<"U+11D50", "U+11D51", "U+11D52", "U+11D53", "U+11D54",
      "U+11D55", "U+11D56", "U+11D57", "U+11D58", "U+11D59">>,
    <<"U+11DA0", "U+11DA1", "U+11DA2", "U+11DA3", "U+11DA4",
      "U+11DA5", "U+11DA6", "U+11DA7", "U+11DA8", "U+11DA9">>,
    <<"U+16A60", "U+16A61", "U+16A62", "U+16A63", "U+16A64",
      "U+16A65", "U+16A66", "U+16A67", "U+16A68", "U+16A69">>,
    <<"U+16AC0", "U+16AC1", "U+16AC2", "U+16AC3", "U+16AC4",
      "U+16AC5", "U+16AC6", "U+16AC7", "U+16AC8", "U+16AC9">>,
    <<"U+16B50", "U+16B51", "U+16B52", "U+16B53", "U+16B54",
      "U+16B55", "U+16B56", "U+16B57", "U+16B58", "U+16B59">>,
    <<"U+1D7CE", "U+1D7CF", "U+1D7D0", "U+1D7D1", "U+1D7D2",
      "U+1D7D3", "U+1D7D4", "U+1D7D5", "U+1D7D6", "U+1D7D7">>,
    <<"U+1D7D8", "U+1D7D9", "U+1D7DA", "U+1D7DB", "U+1D7DC",
      "U+1D7DD", "U+1D7DE", "U+1D7DF", "U+1D7E0", "U+1D7E1">>,
    <<"U+1D7E2", "U+1D7E3", "U+1D7E4", "U+1D7E5", "U+1D7E6",
      "U+1D7E7", "U+1D7E8", "U+1D7E9", "U+1D7EA", "U+1D7EB">>,
    <<"U+1D7EC", "U+1D7ED", "U+1D7EE", "U+1D7EF", "U+1D7F0",
      "U+1D7F1", "U+1D7F2", "U+1D7F3", "U+1D7F4", "U+1D7F5">>,
    <<"U+1D7F6", "U+1D7F7", "U+1D7F8", "U+1D7F9", "U+1D7FA",
      "U+1D7FB", "U+1D7FC", "U+1D7FD", "U+1D7FE", "U+1D7FF">>,
    <<"U+1E140", "U+1E141", "U+1E142", "U+1E143", "U+1E144",
      "U+1E145", "U+1E146", "U+1E147", "U+1E148", "U+1E149">>,
    <<"U+1E2F0", "U+1E2F1", "U+1E2F2", "U+1E2F3", "U+1E2F4",
      "U+1E2F5", "U+1E2F6", "U+1E2F7", "U+1E2F8", "U+1E2F9">>,
    <<"U+1E950", "U+1E951", "U+1E952", "U+1E953", "U+1E954",
      "U+1E955", "U+1E956", "U+1E957", "U+1E958", "U+1E959">>,
    <<"U+1FBF0", "U+1FBF1", "U+1FBF2", "U+1FBF3", "U+1FBF4",
      "U+1FBF5", "U+1FBF6", "U+1FBF7", "U+1FBF8", "U+1FBF9">>>>

DigitRows == <<Digit>> \o ScriptDigits

\* The decimal digits, and the value of each: its place in its row.
DecimalDigits == UNION {{DigitRows[r][i] : i \in 1..10} : r \in 1..Len(DigitRows)}

DigitValues ==
    [c \in DecimalDigits |->
        CHOOSE v \in 0..9 : \E r \in 1..Len(DigitRows) : DigitRows[r][v + 1] = c]

\* \d
IsDigit(c) == c \in DecimalDigits

\* int(c) for one decimal digit.
DigitVal(c) == DigitValues[c]

\* int(s) for a string of decimal digits.
RECURSIVE IntOf(_)
IntOf(s) ==
    IF s = <<>> THEN 0
    ELSE 10 * IntOf(SubSeq(s, 1, Len(s) - 1)) + DigitVal(s[Len(s)])

\* str(n) for n >= 0.
RECURSIVE StrOf(_)
StrOf(n) ==
    IF n < 10 THEN <<Digit[n + 1]>>
    ELSE StrOf(n \div 10) \o <<Digit[(n % 10) + 1]>>

\* s.find(c) and s.rfind(c), 1-based, 0 when c is not in s.
Find(s, c) ==
    IF \E i \in 1..Len(s) : s[i] = c
    THEN CHOOSE i \in 1..Len(s) : s[i] = c /\ \A j \in 1..(i - 1) : s[j] # c
    ELSE 0

RFind(s, c) ==
    IF \E i \in 1..Len(s) : s[i] = c
    THEN CHOOSE i \in 1..Len(s) : s[i] = c /\ \A j \in (i + 1)..Len(s) : s[j] # c
    ELSE 0

\* s.rstrip("/")
RECURSIVE RStripSlash(_)
RStripSlash(s) ==
    IF s # <<>> /\ s[Len(s)] = "/" THEN RStripSlash(SubSeq(s, 1, Len(s) - 1))
    ELSE s

\* The characters str.strip() removes: those for which str.isspace() holds.
WhiteSpace ==
    {"\t", "\n", "U+000B", "\f", "\r", "U+001C", "U+001D", "U+001E",
     "U+001F", " ", "U+0085", "U+00A0", "U+1680", "U+2000", "U+2001",
     "U+2002", "U+2003", "U+2004", "U+2005", "U+2006", "U+2007", "U+2008",
     "U+2009", "U+200A", "U+2028", "U+2029", "U+202F", "U+205F", "U+3000"}

\* s.strip()
RECURSIVE Strip(_)
Strip(s) ==
    IF s # <<>> /\ Head(s) \in WhiteSpace THEN Strip(Tail(s))
    ELSE IF s # <<>> /\ s[Len(s)] \in WhiteSpace THEN Strip(SubSeq(s, 1, Len(s) - 1))
    ELSE s

\* re.search(r"\d+", s): the first maximal run of digits, <<>> when none.
FirstDigits(s) ==
    IF \E i \in 1..Len(s) : IsDigit(s[i])
    THEN LET b == CHOOSE i \in 1..Len(s) :
                      IsDigit(s[i]) /\ \A j \in 1..(i - 1) : ~IsDigit(s[j])
             e == CHOOSE i \in b..Len(s) :
                      /\ \A j \in b..i : IsDigit(s[j])
                      /\ (i = Len(s) \/ ~IsDigit(s[i + 1]))
         IN  SubSeq(s, b, e)
    ELSE <<>>

\* The characters re.sub replaces in save_photos.
BadChars == {"\\", "/", ":", "\"", "*", "?", "<", ">", "|"}

RECURSIVE DropBad(_)
DropBad(s) == IF s # <<>> /\ Head(s) \in BadChars THEN DropBad(Tail(s)) ELSE s

\* re.sub(r'[\\/:"*?<>|]+', "_", title): each maximal run becomes one "_".
RECURSIVE Sanitize(_)
Sanitize(s) ==
    IF s = <<>> THEN <<>>
    ELSE IF Head(s) \in BadChars THEN <<"_">> \o Sanitize(DropBad(s))
    ELSE <<Head(s)>> \o Sanitize(Tail(s))

\* os.path.splitext(p)[-1] (posixpath): the text from the last dot, when
\* that dot is after the last "/" and some character between them is not a dot.
SplitExt(p) ==
    LET sep == RFind(p, "/")
        dot == RFind(p, ".")
    IN  IF dot > sep /\ \E k \in (sep + 1)..(dot - 1) : p[k] # "."
        THEN SubSeq(p, dot, Len(p))
        ELSE <<>>

\* s.split("?")[0]
BeforeQuery(s) ==
    IF Find(s, "?") = 0 THEN s ELSE SubSeq(s, 1, Find(s, "?") - 1)

\* The longest ext (dot included) download_image keeps.
MaxExtLen == 5

DefaultExt == <<".", "j", "p", "g">>

\* download_image, the extension of the target file.
ExtOf(url) ==
    LET ext == BeforeQuery(SplitExt(url))
    IN  IF ext = <<>> \/ Len(ext) > MaxExtLen THEN DefaultExt ELSE ext

\* f"{n:03}"
Pad3(n) ==
    LET s == StrOf(n)
    IN  IF Len(s) >= 3 THEN s ELSE [i \in 1..(3 - Len(s)) |-> "0"] \o s

\* The file name download_image writes url at position idx (0-based) to.
FileName(idx, url) == Pad3(idx + 1) \o ExtOf(url)

\* os.path.join(a, b) (posixpath): b alone when it is absolute, else a and b
\* with a "/" between them unless a is empty or ends with one.
PathJoin(a, b) ==
    IF b # <<>> /\ Head(b) = "/" THEN b
    ELSE IF a = <<>> \/ a[Len(a)] = "/" THEN a \o b
    ELSE a \o <<"/">> \o b

IsPrefix(p, q) == Len(p) <= Len(q) /\ SubSeq(q, 1, Len(p)) = p

\* os.path.split(p) (posixpath): the head, without its trailing slashes
\* unless it is made of slashes, and the tail after the last "/".
PathSplit(p) ==
    LET i    == RFind(p, "/")
        head == SubSeq(p, 1, i)
    IN  <<IF \E k \in 1..Len(head) : head[k] # "/" THEN RStripSlash(head) ELSE head,
          SubSeq(p, i + 1, Len(p))>>

\* download_image, os.path.join(folder, name)
PathOf(folder, name) == PathJoin(folder, name)

Root == <<"m", "e", "i", "r", "e", "n", "t", "u", "_",
          "d", "o", "w", "n", "l", "o", "a", "d", "s">>

\* save_photos, the folder of an entry.
FolderOf(title) == PathJoin(Root, Sanitize(title))

----------------------------------------------------------------------------
(* Program constants.                                                      *)

\* download_image's default retries.
Retries == 3

\* get_all_photos' default max_workers, the value main calls it with.
LinkWorkers == 1

\* save_photos' default max_workers, the value main calls it with.
DlWorkers == 3

BASE_URL == <<"h", "t", "t", "p", "s", ":", "/", "/", "m", "e", "i", "r",
              "e", "n", "t", "u", ".", "c", "c", "/">>

\* urllib.parse, for the base BASE_URL: scheme https, netloc meirentu.cc,
\* path "/", no params, query or fragment.
BaseScheme == <<"h", "t", "t", "p", "s">>
BaseNetloc == <<"m", "e", "i", "r", "e", "n", "t", "u", ".", "c", "c">>

LowerCase == <<"a", "b", "c", "d", "e", "f", "g", "h", "i", "j", "k", "l", "m",
               "n", "o", "p", "q", "r", "s", "t", "u", "v", "w", "x", "y", "z">>
UpperCase == <<"A", "B", "C", "D", "E", "F", "G", "H", "I", "J", "K", "L", "M",
               "N", "O", "P", "Q", "R", "S", "T", "U", "V", "W", "X", "Y", "Z">>

\* c.isascii() and c.isalpha()
IsAsciiAlpha(c) == \E i \in 1..26 : LowerCase[i] = c \/ UpperCase[i] = c

\* c in scheme_chars
IsSchemeChar(c) ==
    \/ IsAsciiAlpha(c)
    \/ \E i \in 1..10 : Digit[i] = c
    \/ c \in {"+", "-", "."}

\* s.lower(), for a string of scheme_chars.
Lower(s) ==
    [i \in 1..Len(s) |->
        IF \E k \in 1..26 : UpperCase[k] = s[i]
        THEN LowerCase[CHOOSE k \in 1..26 : UpperCase[k] = s[i]]
        ELSE s[i]]

\* _WHATWG_C0_CONTROL_OR_SPACE: the characters U+0000 to U+0020.
C0ControlOrSpace ==
    {"U+0000", "U+0001", "U+0002", "U+0003", "U+0004", "U+0005", "U+0006",
     "U+0007", "U+0008", "\t", "\n", "U+000B", "\f", "\r", "U+000E", "U+000F",
     "U+0010", "U+0011", "U+0012", "U+0013", "U+0014", "U+0015", "U+0016",
     "U+0017", "U+0018", "U+0019", "U+001A", "U+001B", "U+001C", "U+001D",
     "U+001E", "U+001F", " "}

\* _UNSAFE_URL_BYTES_TO_REMOVE
UnsafeUrlChars == {"\t", "\r", "\n"}

\* url.lstrip(_WHATWG_C0_CONTROL_OR_SPACE)
RECURSIVE LStripC0(_)
LStripC0(s) ==
    IF s # <<>> /\ Head(s) \in C0ControlOrSpace THEN LStripC0(Tail(s)) ELSE s

\* The characters of s that are not in drop, in order.
RECURSIVE Without(_, _)
Without(s, drop) ==
    IF s = <<>> THEN <<>>
    ELSE (IF Head(s) \in drop THEN <<>> ELSE <<Head(s)>>) \o Without(Tail(s), drop)

\* s.split(c)
RECURSIVE Split(_, _)
Split(s, c) ==
    IF Find(s, c) = 0 THEN <<s>>
    ELSE <<SubSeq(s, 1, Find(s, c) - 1)>> \o Split(SubSeq(s, Find(s, c) + 1, Len(s)), c)

\* c.join(parts)
RECURSIVE Join(_, _)
Join(parts, c) ==
    IF parts = <<>> THEN <<>>
    ELSE IF Len(parts) = 1 THEN parts[1]
    ELSE parts[1] \o <<c>> \o Join(Tail(parts), c)

\* The position of the first character of s at or after from that is in cs,
\* Len(s) + 1 when there is none.
FirstOf(s, cs, from) ==
    IF \E i \in from..Len(s) : s[i] \in cs
    THEN CHOOSE i \in from..Len(s) : s[i] \in cs /\ \A j \in from..(i - 1) : s[j] \notin cs
    ELSE Len(s) + 1

(* urllib.parse. A local variable of the library's code is bound the way   *)
(* "CHOOSE v \in {F(x) : x \in {e}} : TRUE" binds x: to the value of e,     *)
(* which is F(x) for that value.                                           *)

\* urlsplit, lines "if '?' in url": the query is split off what is left.
SplitQuery(scheme, netloc, url, fragment) ==
    LET qm == Find(url, "?")
    IN  [scheme   |-> scheme,
         netloc   |-> netloc,
         path     |-> IF qm = 0 THEN url ELSE SubSeq(url, 1, qm - 1),
         query    |-> IF qm = 0 THEN <<>> ELSE SubSeq(url, qm + 1, Len(url)),
         fragment |-> fragment]

\* urlsplit, "if allow_fragments and '#' in url".
SplitFragment(scheme, netloc, url) ==
    LET hash == Find(url, "#")
    IN  IF hash = 0 THEN SplitQuery(scheme, netloc, url, <<>>)
        ELSE CHOOSE v \in {SplitQuery(scheme, netloc, u, SubSeq(url, hash + 1, Len(url))) :
                               u \in {SubSeq(url, 1, hash - 1)}} : TRUE

\* urlsplit, "if url[:2] == '//'": _splitnetloc(url, 2).
SplitNetloc(scheme, url) ==
    IF Len(url) >= 2 /\ url[1] = "/" /\ url[2] = "/"
    THEN CHOOSE v \in {SplitFragment(scheme, SubSeq(url, 3, delim - 1),
                                     SubSeq(url, delim, Len(url))) :
                           delim \in {FirstOf(url, {"/", "?", "#"}, 3)}} : TRUE
    ELSE SplitFragment(scheme, <<>>, url)

\* urlsplit, the scheme: the text before the first ":" when it begins with
\* an ASCII letter and is made of scheme_chars, in lower case; else the
\* default, the scheme of the base.
SplitScheme(url) ==
    LET colon == Find(url, ":")
    IN  IF /\ colon > 1
           /\ IsAsciiAlpha(url[1])
           /\ \A k \in 1..(colon - 1) : IsSchemeChar(url[k])
        THEN CHOOSE v \in {SplitNetloc(scheme, u) :
                               scheme \in {Lower(SubSeq(url, 1, colon - 1))},
                               u \in {SubSeq(url, colon + 1, Len(url))}} : TRUE
        ELSE SplitNetloc(BaseScheme, url)

\* urlsplit(url, "https"), without the checks of the netloc that raise.
UrlSplit(url) ==
    CHOOSE v \in {SplitScheme(u) : u \in {Without(LStripC0(url), UnsafeUrlChars)}} : TRUE

HexDigits == {"0", "1", "2", "3", "4", "5", "6", "7", "8", "9",
              "a", "b", "c", "d", "e", "f", "A", "B", "C", "D", "E", "F"}

\* ipaddress, IPv4Address._parse_octet does not raise.
ValidOctet(s) ==
    /\ s # <<>> /\ Len(s) <= 3
    /\ \A i \in 1..Len(s) : \E d \in 1..10 : Digit[d] = s[i]
    /\ (s = <<"0">> \/ s[1] # "0")
    /\ IntOf(s) <= 255

\* IPv4Address(s) does not raise.
ValidIPv4(s) ==
    /\ Len(Split(s, ".")) = 4
    /\ \A i \in 1..4 : ValidOctet(Split(s, ".")[i])

\* IPv6Address._parse_hextet does not raise.
ValidHextet(s) ==
    s # <<>> /\ Len(s) <= 4 /\ \A i \in 1..Len(s) : s[i] \in HexDigits

\* IPv6Address(s) does not raise.
ValidIPv6(s) ==
    LET pct    == Find(s, "%")
        addr   == IF pct = 0 THEN s ELSE SubSeq(s, 1, pct - 1)
        scope  == IF pct = 0 THEN <<>> ELSE SubSeq(s, pct + 1, Len(s))
        parts0 == Split(addr, ":")
        hasV4  == Find(parts0[Len(parts0)], ".") # 0
        parts  == IF hasV4
                  THEN SubSeq(parts0, 1, Len(parts0) - 1) \o <<<<"0">>, <<"0">>>>
                  ELSE parts0
        n      == Len(parts)
        skips  == {i \in 2..(n - 1) : parts[i] = <<>>}
        k      == CHOOSE i \in skips : TRUE
        hi     == IF parts[1] = <<>> THEN k - 2 ELSE k - 1
        lo     == IF parts[n] = <<>> THEN n - k - 1 ELSE n - k
    IN  /\ pct = 0 \/ (scope # <<>> /\ Find(scope, "%") = 0)
        /\ Len(parts0) >= 3
        /\ hasV4 => ValidIPv4(parts0[Len(parts0)])
        /\ n <= 9
        /\ Cardinality(skips) <= 1
        /\ IF skips # {}
           THEN /\ parts[1] = <<>> => hi = 0
                /\ parts[n] = <<>> => lo = 0
                /\ 8 - (hi + lo) >= 1
                /\ \A i \in 1..hi : ValidHextet(parts[i])
                /\ \A i \in (n - lo + 1)..n : ValidHextet(parts[i])
           ELSE /\ n = 8
                /\ \A i \in 1..n : ValidHextet(parts[i])

\* _check_bracketed_host(hostname) does not raise: an IPvFuture address
\* (v, hexadecimal digits, a dot, more) or an IPv6 address.
ValidBracketedHost(host) ==
    IF host # <<>> /\ Head(host) = "v"
    THEN LET dot == Find(host, ".")
         IN  /\ dot >= 3 /\ dot < Len(host)
             /\ \A i \in 2..(dot - 1) : host[i] \in HexDigits
    ELSE ValidIPv6(host)

\* The characters outside ASCII whose NFKC form holds one of / ? # @ :
NfkcDelimiters ==
    {"U+2047", "U+2048", "U+2049", "U+2100", "U+2101", "U+2105", "U+2106",
     "U+2A74", "U+FE13", "U+FE16", "U+FE55", "U+FE56", "U+FE5F", "U+FE6B",
     "U+FF03", "U+FF0F", "U+FF1A", "U+FF1F", "U+FF20"}

\* _check_bracketed_host raises for the text between the first "[" of the
\* netloc and the next "]".
BadBracketedHost(netloc) ==
    LET open == Find(netloc, "[")
        rest == SubSeq(netloc, open + 1, Len(netloc))
    IN  ~ValidBracketedHost(IF Find(rest, "]") = 0 THEN rest
                            ELSE SubSeq(rest, 1, Find(rest, "]") - 1))

\* The checks of urlsplit on the netloc: one bracket only, a bracketed host
\* that is no address, or (_checknetloc) a character that NFKC turns into a
\* delimiter.
BadNetloc(netloc) ==
    \/ (Find(netloc, "[") # 0) # (Find(netloc, "]") # 0)
    \/ Find(netloc, "[") # 0 /\ Find(netloc, "]") # 0 /\ BadBracketedHost(netloc)
    \/ \E i \in 1..Len(netloc) : netloc[i] \in NfkcDelimiters

\* urlsplit raises ValueError.
UrlSplitRaises(url) ==
    CHOOSE v \in {BadNetloc(netloc) : netloc \in {UrlSplit(url).netloc}} : TRUE

\* _splitparams(path): the path and the params after the first ";" of its
\* last segment.
SplitParams(path) ==
    LET semi == FirstOf(path, {";"}, RFind(path, "/") + 1)
    IN  IF semi > Len(path) THEN <<path, <<>>>>
        ELSE <<SubSeq(path, 1, semi - 1), SubSeq(path, semi + 1, Len(path))>>

\* urlunparse for the schemes of uses_netloc, https among them.
UrlUnparse(scheme, netloc, path, params, query, fragment) ==
    LET p1 == IF params # <<>> THEN path \o <<";">> \o params ELSE path
        p2 == IF netloc # <<>> \/ ~(Len(p1) >= 2 /\ p1[1] = "/" /\ p1[2] = "/")
              THEN <<"/", "/">> \o netloc
                      \o (IF p1 # <<>> /\ p1[1] # "/" THEN <<"/">> ELSE <<>>) \o p1
              ELSE p1
    IN  scheme \o <<":">> \o p2
           \o (IF query # <<>> THEN <<"?">> \o query ELSE <<>>)
           \o (IF fragment # <<>> THEN <<"#">> \o fragment ELSE <<>>)

\* The segments of s without the empty ones.
RECURSIVE NonEmpty(_)
NonEmpty(segs) ==
    IF segs = <<>> THEN <<>>
    ELSE (IF Head(segs) = <<>> THEN <<>> ELSE <<Head(segs)>>) \o NonEmpty(Tail(segs))

\* urljoin's loop over the segments: ".." drops the last segment kept (none
\* when there is none), "." is skipped.
RECURSIVE Resolve(_, _)
Resolve(segs, kept) ==
    IF segs = <<>> THEN kept
    ELSE IF Head(segs) = <<".", ".">>
    THEN Resolve(Tail(segs), IF kept = <<>> THEN kept ELSE SubSeq(kept, 1, Len(kept) - 1))
    ELSE IF Head(segs) = <<".">> THEN Resolve(Tail(segs), kept)
    ELSE Resolve(Tail(segs), Append(kept, Head(segs)))

\* urljoin, the segments to resolve: those of the path when it begins with
\* "/", else those of the base path "/" (base_parts ['', '']) and of the
\* path, without the empty ones between the first and the last.
SegmentsOf(path) ==
    IF path # <<>> /\ Head(path) = "/" THEN Split(path, "/")
    ELSE CHOOSE v \in {<<all[1]>> \o NonEmpty(SubSeq(all, 2, Len(all) - 1))
                            \o <<all[Len(all)]>> :
                           all \in {<<<<>>, <<>>>> \o Split(path, "/")}} : TRUE

\* urljoin, '/'.join(resolved_path) or '/' for the segments.
JoinSegments(segments) ==
    CHOOSE v \in {IF joined = <<>> THEN <<"/">> ELSE joined :
                      joined \in {Join(IF segments[Len(segments)] \in {<<".">>, <<".", ".">>}
                                       THEN Append(Resolve(segments, <<>>), <<>>)
                                       ELSE Resolve(segments, <<>>), "/")}} : TRUE

\* urljoin, the path of the result for a path (or params) that is not empty.
JoinedPath(path) ==
    CHOOSE v \in {JoinSegments(segments) : segments \in {SegmentsOf(path)}} : TRUE

\* urljoin after urlparse: s is the split of href, path and params those of
\* s.path.
JoinParsed(href, s, path, params) ==
    IF s.scheme # BaseScheme THEN href
    ELSE IF s.netloc # <<>>
    THEN UrlUnparse(s.scheme, s.netloc, path, params, s.query, s.fragment)
    ELSE IF path = <<>> /\ params = <<>>
    THEN UrlUnparse(s.scheme, BaseNetloc, <<"/">>, <<>>, s.query, s.fragment)
    ELSE UrlUnparse(s.scheme, BaseNetloc, JoinedPath(path), params, s.query,
                    s.fragment)

\* urlparse after urlsplit: the params are split off a path that has a ";".
JoinSplit(href, s) ==
    IF Find(s.path, ";") # 0
    THEN CHOOSE v \in {JoinParsed(href, s, pp[1], pp[2]) :
                           pp \in {SplitParams(s.path)}} : TRUE
    ELSE JoinParsed(href, s, s.path, <<>>)

\* urljoin(BASE_URL, href), when urlsplit does not raise.
UrlJoin(href) ==
    IF href = <<>> THEN BASE_URL
    ELSE CHOOSE v \in {JoinSplit(href, s) : s \in {UrlSplit(href)}} : TRUE

\* get_album_list, the URL of listing page page_no.
ListingUrl(page_no) ==
    IF page_no = 1 THEN BASE_URL
    ELSE UrlJoin(<<"i", "n", "d", "e", "x", "/">> \o StrOf(page_no)
                 \o <<".", "h", "t", "m", "l">>)

----------------------------------------------------------------------------
(* The site: what fetch_dom returns for a URL when it does not raise.      *)
(* A DOM is the three selections the code makes of it.                     *)

\* An anchor of ".page a" is its text and its href; a card of "li.i_list > a"
\* is its href and its ".postlist-imagenum span" (hasTitle: the tag exists).
Anchor(text, href) == [text |-> text, href |-> href]

Card(href, hasTitle, title) == [href |-> href, hasTitle |-> hasTitle, title |-> title]

HrefA == <<"/", "a", "/">>
HrefB == <<"b">>
HrefB2 == <<"/", "b", "/", "2">>
HrefG == <<"g">>
HrefG2 == <<"g", "/", "2">>

ImgHost == <<"h", "t", "t", "p", ":", "/", "/", "i", "/">>
Img1 == ImgHost \o <<"p", ".", "P", "N", "G", "?", "x", "=", "1">>
Img2 == ImgHost \o <<"q">>
Img3 == ImgHost \o <<"r", ".", "w", "e", "b", "p">>

\* The images of a gallery of two pages, one image on each.
GalleryImg(i) == ImgHost \o <<"g">> \o StrOf(i)

\* A pagination widget of the first listing page showing pages 1..k: one
\* anchor per page (2, 3, .., k, 1), its text the number after a fullwidth
\* zero between a line feed and a tab, and a "next" anchor; no widget when
\* k = 0.
PagerOf(k) ==
    IF k = 0 THEN <<>>
    ELSE [i \in 1..k |-> Anchor(<<"\n", "p", "U+FF10">> \o StrOf((i % k) + 1) \o <<"\t">>,
                                <<"i", "n", "d", "e", "x", "/">> \o StrOf((i % k) + 1))]
         \o <<Anchor(<<"n", "e", "x", "t">>, <<"i", "n", "d", "e", "x", "/", "2">>)>>

Pagers == {PagerOf(k) : k \in 0..MaxPage}

\* soup.select("li.i_list > a") of listing page page_no.
CardsOf(page_no) ==
    IF page_no = 1
    THEN <<Card(HrefB, TRUE, <<"a", "_", "b">>),
           Card(<<>>, TRUE, <<"x">>),
           Card(HrefA, TRUE, <<"\t", "a", "/", ":", "b", "\n">>)>>
    ELSE IF page_no = 2
    THEN <<Card(<<"/", "c">>, FALSE, <<>>),
           Card(HrefA, TRUE, <<"a", "/", ":", "b">>)>>
    ELSE <<>>

\* The URLs of the pages of the site: what urljoin makes of the hrefs.
UrlA == RStripSlash(UrlJoin(HrefA))
UrlB == UrlJoin(HrefB)
UrlB2 == UrlJoin(HrefB2)
UrlG == UrlJoin(HrefG)
UrlG2 == UrlJoin(HrefG2)

\* soup.select(".page a") of an album page.
AnchorsOf(url) ==
    IF url = UrlB
    THEN <<Anchor(<<"1">>, <<>>), Anchor(<<"2">>, HrefB2),
           Anchor(<<"n", "e", "x", "t">>, HrefB2)>>
    ELSE IF url = UrlG
    THEN <<Anchor(<<"2">>, HrefG2)>>
    ELSE <<>>

\* [img.get("src") for img in soup.select(".content_left img")] of a page.
SrcsOf(url) ==
    IF url = UrlA THEN <<Img1>>
    ELSE IF url = UrlB THEN <<Img2>>
    ELSE IF url = UrlB2 THEN <<<<>>, Img3>>
    ELSE IF url = UrlG THEN <<GalleryImg(1)>>
    ELSE IF url = UrlG2 THEN <<GalleryImg(2)>>
    ELSE <<>>

----------------------------------------------------------------------------
(* Pure parts of the functions.                                            *)

\* A variant of max_page_no that takes the least number.
min_page_no(anchors) ==
    LET texts == {Strip(anchors[i].text) : i \in 1..Len(anchors)}
        nums  == {IntOf(d) : d \in {FirstDigits(t) : t \in texts} \ {<<>>}}
    IN  IF nums # {} THEN CHOOSE n \in nums : \A m \in nums : n <= m ELSE 1

\* max_page_no(soup)
max_page_no(anchors) ==
    LET texts == {Strip(anchors[i].text) : i \in 1..Len(anchors)}
        nums  == {IntOf(d) : d \in {FirstDigits(t) : t \in texts} \ {<<>>}}
    IN  IF nums # {} THEN CHOOSE n \in nums : \A m \in nums : m <= n ELSE 1

\* get_album_list, urljoin raises for a card that has an href and a title tag.
EntriesRaise(cards) ==
    \E i \in 1..Len(cards) :
        cards[i].href # <<>> /\ cards[i].hasTitle /\ UrlSplitRaises(cards[i].href)

RECURSIVE EntriesOf(_)
\* get_album_list, the entries of the cards that have an href and a title tag.
EntriesOf(cards) ==
    IF cards = <<>> THEN <<>>
    ELSE LET c == Head(cards)
         IN  (IF c.href # <<>> /\ c.hasTitle
              THEN <<[title |-> Strip(c.title), url |-> UrlJoin(c.href)]>>
              ELSE <<>>) \o EntriesOf(Tail(cards))

\* get_all_photos, the base URL of an entry.
BaseOf(item) == RStripSlash(item.url)

\* A variant of PageUrls that does not add the base.
PageUrlsOfAnchors(item, anchors) ==
    {UrlJoin(anchors[i].href) : i \in {j \in 1..Len(anchors) : anchors[j].href # <<>>}}

\* get_all_photos, page_urls: the hrefs of the anchors and the base.
PageUrls(item, anchors) ==
    {UrlJoin(anchors[i].href) : i \in {j \in 1..Len(anchors) : anchors[j].href # <<>>}}
        \cup {BaseOf(item)}

\* get_all_photos, urljoin raises for an anchor that has an href.
PageUrlsRaise(anchors) ==
    \E i \in 1..Len(anchors) :
        anchors[i].href # <<>> /\ UrlSplitRaises(anchors[i].href)

\* fetch_images_from_page, the srcs that are not empty.
ImagesOf(srcs) == SelectSeq(srcs, LAMBDA s : s # <<>>)

----------------------------------------------------------------------------
(* Tasks, results and the file system.                                     *)

\* The exception texts ({e}) of a failed attempt: the request failed
\* (session.get or raise_for_status), or the file could not be written.
HttpErr == <<"4", "0", "4">>
IoErr == <<"E", "I", "O">>

\* The text of an OSError names the path it is about.
OsError(path) == IoErr \o <<" ">> \o path

\* save_photos line 148, the path of the sidecar file.
SidecarOf(folder) == PathJoin(folder, <<"f", "a", "i", "l", "e", "d", ".", "t", "x", "t">>)

NoLog == <<>>

\* The entry main is processing: the listing page and the position in it.
Owner == <<page, ai>>

\* A future of get_all_photos' pool: pool.submit(fetch_images_from_page, url),
\* the idx-th (0-based) submitted. err: fetch_images_from_page took its
\* except branch; res is its result; fin: it was the fin-th of its pool to
\* finish (0 while it has not); early: it is in the list of the futures that
\* had finished when as_completed began; got: as_completed has yielded it.
LinkTask(owner, idx, url) ==
    [owner |-> owner, idx |-> idx, url |-> url, st |-> "pending", err |-> FALSE,
     res |-> <<>>, fin |-> 0, early |-> FALSE, got |-> FALSE]

\* A future of save_photos' pool: pool.submit(download_image, url, folder, idx, referer).
\* errs is the history of the exceptions of its attempts, wrote the paths it
\* opened for writing, opened holds while the attempt has its file open
\* (lines 118-120); res is its result.
DlTask(owner, idx, url, folder) ==
    [owner |-> owner, idx |-> idx, url |-> url, folder |-> folder,
     st |-> "pending", errs |-> <<>>, wrote |-> {}, opened |-> FALSE,
     res |-> <<>>, got |-> FALSE]

\* download_image's return values.
Success(url) == <<TRUE, url>>

\* A variant of ReportedErr that reports the first exception.
FirstErr(errs) == errs[1]

\* The reason download_image reports: the exception of the attempt that
\* reached the else branch, the last one.
ReportedErr(errs) == errs[Len(errs)]

Failure(url, errs) == <<FALSE, url \o <<" ", "|", " ">> \o ReportedErr(errs)>>

\* A variant of AttemptsRemain that allows one attempt more.
AttemptsRemainOneMore(made) == made - 1 < Retries

\* download_image, "attempt < retries - 1" after the attempt numbered made
\* (1-based) has failed.
AttemptsRemain(made) == made - 1 < Retries - 1

\* A worker of a pool of max_workers threads is free.
WorkerFree(tasks, busy, max_workers) ==
    Cardinality({t \in tasks : t.st \in busy}) < max_workers

\* get_all_photos line 98, the threads of the pool: ThreadPoolExecutor(
\* max_workers=max_workers).
LinkPoolSize == link_max_workers

\* A variant of DlPoolSize that makes a thread for every photo.
DlPoolPerPhoto == Len(photos)

\* save_photos line 139, the threads of the pool: ThreadPoolExecutor(
\* max_workers=max_workers).
DlPoolSize == dl_max_workers

\* The tasks of a pool that have not finished.
Unfinished(tasks) == {t \in tasks : t.st # "done"}

\* A variant of PoolJoined that waits only until every task was started.
PoolStarted(tasks) == \A t \in tasks : t.st # "pending"

\* Leaving "with ThreadPoolExecutor(...) as pool" after the as_completed loop:
\* every future was yielded and shutdown(wait=True) has returned.
PoolJoined(tasks) == \A t \in tasks : t.st = "done" /\ t.got

\* Leaving the with block on a KeyboardInterrupt: shutdown(wait=True) alone.
PoolDrained(tasks) == \A t \in tasks : t.st = "done"

\* A variant of TargetOf that numbers the file by the tasks finished so far.
TargetByCompletion(t) ==
    PathOf(t.folder,
           FileName(Cardinality({u \in dlTasks : u.owner = t.owner /\ u.st = "done"}),
                    t.url))

\* The directory a path names: a "/" or a "/." at its end does not count.
RECURSIVE DirName(_)
DirName(path) ==
    IF Len(path) > 1 /\ path[Len(path)] = "/"
    THEN DirName(SubSeq(path, 1, Len(path) - 1))
    ELSE IF Len(path) > 2 /\ SubSeq(path, Len(path) - 1, Len(path)) = <<"/", ".">>
    THEN DirName(SubSeq(path, 1, Len(path) - 2))
    ELSE path

\* os.path.exists(path) for a directory.
Exists(path) == DirName(path) \in dirs

\* os.makedirs, "head, tail = path.split(name)", split once more when the
\* tail is empty.
MakedirsSplit(name) ==
    LET s == PathSplit(name)
    IN  IF s[2] = <<>> THEN PathSplit(s[1]) ELSE s

\* os.makedirs(name, exist_ok=True), the paths it calls mkdir for and whose
\* OSError it raises: those of the missing parents first (makedirs(head)),
\* then name itself, unless its tail is "." under a parent just made.
RECURSIVE MakedirsPaths(_)
MakedirsPaths(name) ==
    UNION {LET made == s[1] # <<>> /\ s[2] # <<>> /\ ~Exists(s[1])
           IN  (IF made THEN MakedirsPaths(s[1]) ELSE {})
                   \cup (IF made /\ s[2] = <<".">> THEN {} ELSE {name})
             : s \in {MakedirsSplit(name)}}

\* The path the task writes to.
TargetOf(t) == PathOf(t.folder, FileName(t.idx, t.url))

----------------------------------------------------------------------------
(* The state after "python xiuren.py --start s --end e" has parsed its     *)
(* arguments: nothing fetched, the download root empty.                    *)

Init ==
    /\ start \in 1..MaxPage
    /\ end \in -1..MaxPage
    /\ link_max_workers = LinkWorkers
    /\ dl_max_workers = DlWorkers
    /\ discovered = FALSE
    /\ soup = <<>>
    /\ pc = "start"
    /\ page = start
    /\ albums = <<>>
    /\ ai = 1
    /\ listed = <<>>
    /\ attempted = <<>>
    /\ linkTasks = {}
    /\ photos = <<>>
    /\ dlTasks = {}
    /\ failed_list = <<>>
    /\ dirs = {}
    /\ files = <<>>
    /\ failedTxt = <<>>
    /\ albumLog = NoLog
    /\ interrupted = FALSE

args == <<start, link_max_workers, dl_max_workers, discovered, soup>>
loopVars == <<page, albums, ai, listed, attempted>>
poolVars == <<linkTasks, photos, dlTasks, failed_list>>
fsVars == <<dirs, files, failedTxt>>

----------------------------------------------------------------------------
(* main, lines 154-161.                                                    *)

\* end > 0: the range is the one requested.
EndGiven ==
    /\ pc = "start" /\ end > 0
    /\ pc' = "loop"
    /\ UNCHANGED <<args, end, loopVars, poolVars, fsVars, albumLog, interrupted>>

\* end <= 0, get_total_pages line 15: the first listing page is fetched; it
\* shows one of the pagination widgets.
DiscoverFetch ==
    /\ pc = "start" /\ end <= 0
    /\ soup' \in Pagers
    /\ pc' = "total_pages"
    /\ UNCHANGED <<start, end, link_max_workers, dl_max_workers, discovered,
                   loopVars, poolVars, fsVars, albumLog, interrupted>>

\* get_total_pages line 16 and main line 157: end = max_page_no(soup).
DiscoverMax ==
    /\ pc = "total_pages"
    /\ end' = max_page_no(soup)
    /\ discovered' = TRUE
    /\ soup' = <<>>
    /\ pc' = "loop"
    /\ UNCHANGED <<start, link_max_workers, dl_max_workers, loopVars, poolVars,
                   fsVars, albumLog, interrupted>>

\* end <= 0 and get_total_pages raises: main prints and returns.
DiscoverFail ==
    /\ pc = "start" /\ end <= 0
    /\ pc' = "returned"
    /\ UNCHANGED <<args, end, loopVars, poolVars, fsVars, albumLog, interrupted>>

(* main, lines 162-170: one iteration of the page loop up to the entries.  *)

\* range(start, end + 1) is exhausted.
LoopEnd ==
    /\ pc = "loop" /\ page > end
    /\ pc' = "done"
    /\ UNCHANGED <<args, end, loopVars, poolVars, fsVars, albumLog, interrupted>>

\* get_album_list(page) returns the entries of the page.
ListingOk ==
    /\ pc = "loop" /\ page <= end
    /\ ~EntriesRaise(CardsOf(page))
    /\ listed' = Append(listed, page)
    /\ albums' = EntriesOf(CardsOf(page))
    /\ ai' = 1
    /\ attempted' = <<>>
    /\ pc' = "albums"
    /\ UNCHANGED <<args, end, page, poolVars, fsVars, albumLog, interrupted>>

\* get_album_list(page) raises (the fetch, or urljoin of an href): continue
\* with the next page.
ListingFail ==
    /\ pc = "loop" /\ page <= end
    /\ listed' = Append(listed, page)
    /\ page' = page + 1
    /\ UNCHANGED <<args, end, pc, albums, ai, attempted, poolVars, fsVars,
                   albumLog, interrupted>>

\* "for album in albums" is exhausted: the next page.
AlbumsEnd ==
    /\ pc = "albums" /\ ai > Len(albums)
    /\ page' = page + 1
    /\ pc' = "loop"
    /\ UNCHANGED <<args, end, albums, ai, listed, attempted, poolVars, fsVars,
                   albumLog, interrupted>>

----------------------------------------------------------------------------
(* get_all_photos, called from main line 175.                              *)

\* Lines 82-97: the base page is fetched and page_urls is built; the pool
\* is made, about to submit.
ResolveOk ==
    /\ pc = "albums" /\ ai <= Len(albums)
    /\ ~PageUrlsRaise(AnchorsOf(BaseOf(albums[ai])))
    /\ attempted' = Append(attempted, ai)
    /\ linkTasks' = Unfinished(linkTasks)
    /\ photos' = <<>>
    /\ albumLog' = NoLog
    /\ pc' = "submit_links"
    /\ UNCHANGED <<args, end, page, albums, ai, listed, dlTasks, failed_list,
                   fsVars, interrupted>>

\* get_all_photos, the page URLs not yet submitted.
ToSubmit ==
    IF pc = "submit_links"
    THEN PageUrls(albums[ai], AnchorsOf(BaseOf(albums[ai])))
            \ {t.url : t \in {u \in linkTasks : u.owner = Owner}}
    ELSE {}

\* Line 99, one pool.submit of the comprehension: the next URL of
\* list(page_urls), whose order is that of a set; after the last one
\* as_completed is called.
LinkSubmit(u) ==
    /\ pc = "submit_links"
    /\ u \in ToSubmit
    /\ linkTasks' = linkTasks
          \cup {LinkTask(Owner, Cardinality({t \in linkTasks : t.owner = Owner}), u)}
    /\ pc' = IF ToSubmit = {u} THEN "as_completed" ELSE "submit_links"
    /\ UNCHANGED <<args, end, loopVars, photos, dlTasks, failed_list, fsVars,
                   albumLog, interrupted>>

\* Line 83 raises, or urljoin of line 89: the entry fails (main line 179).
ResolveFail ==
    /\ pc = "albums" /\ ai <= Len(albums)
    /\ attempted' = Append(attempted, ai)
    /\ albumLog' = <<albums[ai].title, HttpErr>>
    /\ pc' = "except"
    /\ UNCHANGED <<args, end, page, albums, ai, listed, poolVars, fsVars, interrupted>>

\* A worker of the pool takes the pending task submitted first.
LinkStart(t) ==
    /\ t \in linkTasks /\ t.st = "pending"
    /\ \A u \in linkTasks : (u.owner = t.owner /\ u.st = "pending") => t.idx <= u.idx
    /\ WorkerFree(linkTasks, {"running"}, LinkPoolSize)
    /\ linkTasks' = (linkTasks \ {t}) \cup {[t EXCEPT !.st = "running"]}
    /\ UNCHANGED <<args, end, pc, loopVars, photos, dlTasks, failed_list, fsVars,
                   albumLog, interrupted>>

\* The tasks of the pool of t that have finished.
Finished(t) == {u \in linkTasks : u.owner = t.owner /\ u.st = "done"}

\* fetch_images_from_page returns the images of the page.
LinkFetchOk(t) ==
    /\ t \in linkTasks /\ t.st = "running"
    /\ linkTasks' = (linkTasks \ {t})
          \cup {[t EXCEPT !.st = "done", !.res = ImagesOf(SrcsOf(t.url)),
                          !.fin = Cardinality(Finished(t)) + 1]}
    /\ UNCHANGED <<args, end, pc, loopVars, photos, dlTasks, failed_list, fsVars,
                   albumLog, interrupted>>

\* fetch_images_from_page catches the exception and returns [].
LinkFetchFail(t) ==
    /\ t \in linkTasks /\ t.st = "running"
    /\ linkTasks' = (linkTasks \ {t})
          \cup {[t EXCEPT !.st = "done", !.err = TRUE, !.res = <<>>,
                          !.fin = Cardinality(Finished(t)) + 1]}
    /\ UNCHANGED <<args, end, pc, loopVars, photos, dlTasks, failed_list, fsVars,
                   albumLog, interrupted>>

\* Line 100, as_completed(futures) begins: the futures that have finished
\* by now are a set, yielded before the others.
LinkAsCompleted ==
    /\ pc = "as_completed"
    /\ linkTasks' = {IF t.owner = Owner /\ t.st = "done"
                     THEN [t EXCEPT !.early = TRUE] ELSE t : t \in linkTasks}
    /\ pc' = "links"
    /\ UNCHANGED <<args, end, loopVars, photos, dlTasks, failed_list, fsVars,
                   albumLog, interrupted>>

\* The future as_completed may yield next: one of those that had finished
\* when it began, in the order of a set; after them the others, each as it
\* finishes, in the order they finish.
Yields(t) ==
    /\ t.st = "done" /\ ~t.got
    /\ \/ t.early
       \/ \A u \in linkTasks :
             (u.owner = t.owner /\ u.st = "done" /\ ~u.got)
                 => (~u.early /\ t.fin <= u.fin)

\* Lines 100-102: as_completed yields a finished future of this pool.
LinkCollect(t) ==
    /\ pc = "links"
    /\ t \in linkTasks /\ t.owner = Owner /\ Yields(t)
    /\ photos' = photos \o t.res
    /\ linkTasks' = (linkTasks \ {t}) \cup {[t EXCEPT !.got = TRUE, !.early = FALSE]}
    /\ UNCHANGED <<args, end, pc, loopVars, dlTasks, failed_list, fsVars,
                   albumLog, interrupted>>

----------------------------------------------------------------------------
(* save_photos, called from main line 176, and download_image.             *)

\* The tasks of the pool of the entry main is processing.
Own(tasks) == {t \in tasks : t.owner = Owner}

\* save_photos line 132, os.makedirs(folder, exist_ok=True): the paths it
\* has yet to call mkdir for. Once the parents are made the folder alone is
\* left, and nothing when its tail is ".".
MkdirsLeft ==
    IF pc = "links" /\ PoolJoined(Own(linkTasks))
    THEN UNION {MakedirsPaths(folder) : folder \in {FolderOf(albums[ai].title)}}
    ELSE IF pc = "makedirs"
    THEN UNION {IF MakedirsSplit(folder)[2] = <<".">> THEN {} ELSE {folder}
                  : folder \in {FolderOf(albums[ai].title)}}
    ELSE {}

\* The path os.makedirs calls mkdir for next: the outermost one left.
MkdirPaths ==
    IF MkdirsLeft = {} THEN {}
    ELSE {CHOOSE p \in MkdirsLeft : \A q \in MkdirsLeft : Len(p) <= Len(q)}

\* get_all_photos returns photos; save_photos line 132, os.makedirs makes a
\* missing parent of the folder (the download root) before the folder.
MkdirParent(path) ==
    /\ path \in MkdirPaths
    /\ path # FolderOf(albums[ai].title)
    /\ dirs' = dirs \cup {DirName(path)}
    /\ pc' = "makedirs"
    /\ UNCHANGED <<args, end, loopVars, poolVars, files, failedTxt, albumLog,
                   interrupted>>

\* get_all_photos returns photos when the parents of the folder exist;
\* save_photos lines 130-138: os.makedirs makes the folder (as it is when it
\* exists) and the pool is made, about to submit (nothing to submit when
\* photos is empty: the as_completed loop begins).
SaveBegin ==
    /\ \/ pc = "links" /\ PoolJoined(Own(linkTasks))
       \/ pc = "makedirs"
    /\ \E left \in {MkdirPaths} :
          /\ left \subseteq {FolderOf(albums[ai].title)}
          /\ dirs' = dirs \cup {DirName(p) : p \in left}
    /\ failed_list' = <<>>
    /\ dlTasks' = Unfinished(dlTasks)
    /\ pc' = IF photos = <<>> THEN "download" ELSE "submit"
    /\ UNCHANGED <<args, end, loopVars, linkTasks, photos, files, failedTxt,
                   albumLog, interrupted>>

\* Line 140, one pool.submit of the comprehension: the next position of
\* enumerate(photos); after the last one the as_completed loop begins.
DlSubmit ==
    LET idx == Cardinality(Own(dlTasks))
    IN  /\ pc = "submit"
        /\ idx < Len(photos)
        /\ dlTasks' = dlTasks
              \cup {DlTask(Owner, idx, photos[idx + 1], FolderOf(albums[ai].title))}
        /\ pc' = IF idx + 1 = Len(photos) THEN "download" ELSE "submit"
        /\ UNCHANGED <<args, end, loopVars, linkTasks, photos, failed_list, fsVars,
                       albumLog, interrupted>>

\* A variant of MkdirFail that goes on to submit the downloads.
MkdirFailIgnored(path) ==
    /\ path \in MkdirPaths
    /\ failed_list' = <<>>
    /\ dlTasks' = Unfinished(dlTasks)
    /\ albumLog' = <<albums[ai].title, OsError(path)>>
    /\ pc' = IF photos = <<>> THEN "download" ELSE "submit"
    /\ UNCHANGED <<args, end, loopVars, linkTasks, photos, fsVars, interrupted>>

\* save_photos line 132, mkdir raises for path, a parent of the folder or
\* the folder (any OSError but that of a folder that is there): what was
\* made before stays, the entry fails.
MkdirFail(path) ==
    /\ path \in MkdirPaths
    /\ albumLog' = <<albums[ai].title, OsError(path)>>
    /\ pc' = "except"
    /\ UNCHANGED <<args, end, loopVars, poolVars, fsVars, interrupted>>

\* A worker of the pool takes the pending task submitted first.
DlStart(t) ==
    /\ t \in dlTasks /\ t.st = "pending"
    /\ \A u \in dlTasks : (u.owner = t.owner /\ u.st = "pending") => t.idx <= u.idx
    /\ WorkerFree({u \in dlTasks : u.owner = t.owner}, {"running", "sleeping"},
                  DlPoolSize)
    /\ dlTasks' = (dlTasks \ {t}) \cup {[t EXCEPT !.st = "running"]}
    /\ UNCHANGED <<args, end, pc, loopVars, linkTasks, photos, failed_list, fsVars,
                   albumLog, interrupted>>

\* A variant of AfterError in which the exception of the last attempt leaves
\* download_image instead of being returned.
AfterErrorRaise(t, err) ==
    LET errs == Append(t.errs, err)
    IN  IF AttemptsRemain(Len(errs))
        THEN [t EXCEPT !.st = "sleeping", !.errs = errs]
        ELSE [t EXCEPT !.st = "done", !.errs = errs]

\* download_image after an attempt raised err: sleep and retry, or return
\* the failure.
AfterError(t, err) ==
    LET errs == Append(t.errs, err)
    IN  IF AttemptsRemain(Len(errs))
        THEN [t EXCEPT !.st = "sleeping", !.errs = errs]
        ELSE [t EXCEPT !.st = "done", !.errs = errs, !.res = Failure(t.url, errs)]

\* Lines 116-117 raise: no response, or a bad status.
DlRequestFail(t) ==
    /\ t \in dlTasks /\ t.st = "running" /\ ~t.opened
    /\ dlTasks' = (dlTasks \ {t}) \cup {AfterError(t, HttpErr)}
    /\ UNCHANGED <<args, end, pc, loopVars, linkTasks, photos, failed_list, fsVars,
                   albumLog, interrupted>>

\* Line 118 raises: the file cannot be opened.
DlOpenFail(t) ==
    /\ t \in dlTasks /\ t.st = "running" /\ ~t.opened
    /\ dlTasks' = (dlTasks \ {t}) \cup {AfterError(t, IoErr)}
    /\ UNCHANGED <<args, end, pc, loopVars, linkTasks, photos, failed_list, fsVars,
                   albumLog, interrupted>>

\* Lines 116-118: the response is good and open(filename, "wb") has made
\* the file, or emptied the one that was there; the body is yet to come.
DlOpen(t) ==
    /\ t \in dlTasks /\ t.st = "running" /\ ~t.opened
    /\ files' = (TargetOf(t) :> "partial") @@ files
    /\ dlTasks' = (dlTasks \ {t})
          \cup {[t EXCEPT !.opened = TRUE, !.wrote = @ \cup {TargetOf(t)}]}
    /\ UNCHANGED <<args, end, pc, loopVars, linkTasks, photos, failed_list, dirs,
                   failedTxt, albumLog, interrupted>>

\* Lines 119-121: every chunk of the body is written and the file closed:
\* return True, url.
DlAttemptOk(t) ==
    /\ t \in dlTasks /\ t.st = "running" /\ t.opened
    /\ files' = (TargetOf(t) :> "complete") @@ files
    /\ dlTasks' = (dlTasks \ {t})
          \cup {[t EXCEPT !.st = "done", !.opened = FALSE, !.res = Success(t.url)]}
    /\ UNCHANGED <<args, end, pc, loopVars, linkTasks, photos, failed_list, dirs,
                   failedTxt, albumLog, interrupted>>

\* A variant of DlWriteFail in which the error is swallowed and the attempt
\* returns True, url.
DlWriteFailSwallowed(t) ==
    /\ t \in dlTasks /\ t.st = "running" /\ t.opened
    /\ dlTasks' = (dlTasks \ {t})
          \cup {[t EXCEPT !.st = "done", !.opened = FALSE, !.res = Success(t.url)]}
    /\ UNCHANGED <<args, end, pc, loopVars, linkTasks, photos, failed_list, fsVars,
                   albumLog, interrupted>>

\* Lines 119-120 raise (the stream breaks, or a write fails): the file is
\* closed short of the body.
DlWriteFail(t) ==
    /\ t \in dlTasks /\ t.st = "running" /\ t.opened
    /\ dlTasks' = (dlTasks \ {t}) \cup {AfterError([t EXCEPT !.opened = FALSE], IoErr)}
    /\ UNCHANGED <<args, end, pc, loopVars, linkTasks, photos, failed_list, fsVars,
                   albumLog, interrupted>>

\* A variant of DlWake in which the attempts start over after the sleep.
DlWakeStartOver(t) ==
    /\ t \in dlTasks /\ t.st = "sleeping"
    /\ dlTasks' = (dlTasks \ {t}) \cup {[t EXCEPT !.st = "running", !.errs = <<>>]}
    /\ UNCHANGED <<args, end, pc, loopVars, linkTasks, photos, failed_list, fsVars,
                   albumLog, interrupted>>

\* Line 124: time.sleep(1) returns and the next attempt begins.
DlWake(t) ==
    /\ t \in dlTasks /\ t.st = "sleeping"
    /\ dlTasks' = (dlTasks \ {t}) \cup {[t EXCEPT !.st = "running"]}
    /\ UNCHANGED <<args, end, pc, loopVars, linkTasks, photos, failed_list, fsVars,
                   albumLog, interrupted>>

\* A variant of Collected that records every result.
CollectedAll(failed, res) == Append(failed, res[2])

\* Lines 142-145: failed_list after the result res of a future.
Collected(failed, res) == IF res[1] THEN failed ELSE Append(failed, res[2])

\* Lines 141-146: as_completed yields a finished future of this pool.
DlCollect(t) ==
    /\ pc = "download"
    /\ t \in dlTasks /\ t.owner = Owner /\ t.st = "done" /\ ~t.got
    /\ failed_list' = Collected(failed_list, t.res)
    /\ dlTasks' = (dlTasks \ {t}) \cup {[t EXCEPT !.got = TRUE]}
    /\ UNCHANGED <<args, end, pc, loopVars, linkTasks, photos, fsVars,
                   albumLog, interrupted>>

\* Line 147: failed_list is empty, save_photos returns.
SaveEnd ==
    /\ pc = "download" /\ PoolJoined(Own(dlTasks))
    /\ failed_list = <<>>
    /\ pc' = "pause"
    /\ UNCHANGED <<args, end, loopVars, poolVars, fsVars, albumLog, interrupted>>

\* Lines 147-148: failed.txt is opened with "w": made, or emptied.
SidecarOpen ==
    /\ pc = "download" /\ PoolJoined(Own(dlTasks))
    /\ failed_list # <<>>
    /\ failedTxt' = (FolderOf(albums[ai].title) :> <<>>) @@ failedTxt
    /\ pc' = "sidecar"
    /\ UNCHANGED <<args, end, loopVars, poolVars, dirs, files, albumLog, interrupted>>

\* Lines 149-150, one iteration: the next line of failed_list is written.
SidecarWrite ==
    LET folder == FolderOf(albums[ai].title)
    IN  /\ pc = "sidecar"
        /\ Len(failedTxt[folder]) < Len(failed_list)
        /\ failedTxt' = (folder :> Append(failedTxt[folder],
                                          failed_list[Len(failedTxt[folder]) + 1]))
                            @@ failedTxt
        /\ UNCHANGED <<args, end, pc, loopVars, poolVars, dirs, files, albumLog,
                       interrupted>>

\* Line 149: the loop is exhausted, the file is closed, save_photos returns.
SidecarOk ==
    /\ pc = "sidecar"
    /\ Len(failedTxt[FolderOf(albums[ai].title)]) = Len(failed_list)
    /\ pc' = "pause"
    /\ UNCHANGED <<args, end, loopVars, poolVars, fsVars, albumLog, interrupted>>

\* A variant of SidecarOpenFail in which save_photos ignores the error.
SidecarOpenFailIgnored ==
    /\ pc = "download" /\ PoolJoined(Own(dlTasks))
    /\ failed_list # <<>>
    /\ pc' = "pause"
    /\ UNCHANGED <<args, end, loopVars, poolVars, fsVars, albumLog, interrupted>>

\* Line 148 raises: failed.txt is not opened; the entry fails.
SidecarOpenFail ==
    /\ pc = "download" /\ PoolJoined(Own(dlTasks))
    /\ failed_list # <<>>
    /\ albumLog' = <<albums[ai].title, OsError(SidecarOf(FolderOf(albums[ai].title)))>>
    /\ pc' = "except"
    /\ UNCHANGED <<args, end, loopVars, poolVars, fsVars, interrupted>>

\* Lines 148-150 raise after the open: f.write of a line, or the flush of
\* the buffered text when the file is closed after the last line. The
\* error names no path; the entry fails.
SidecarWriteFail ==
    /\ pc = "sidecar"
    /\ albumLog' = <<albums[ai].title, IoErr>>
    /\ pc' = "except"
    /\ UNCHANGED <<args, end, loopVars, poolVars, fsVars, interrupted>>

\* A variant of AlbumNext in which the exception of an entry ends the page.
AlbumNextOrPage ==
    /\ pc \in {"pause", "except"}
    /\ IF pc = "except"
       THEN /\ page' = page + 1 /\ ai' = ai /\ pc' = "loop"
       ELSE /\ page' = page /\ ai' = ai + 1 /\ pc' = "albums"
    /\ linkTasks' = Unfinished(linkTasks)
    /\ dlTasks' = Unfinished(dlTasks)
    /\ photos' = <<>>
    /\ failed_list' = <<>>
    /\ UNCHANGED <<args, end, albums, listed, attempted, fsVars,
                   albumLog, interrupted>>

\* main lines 177-179: the entry is over (slept, or its exception printed);
\* the loop takes the next entry.
AlbumNext ==
    /\ pc \in {"pause", "except"}
    /\ ai' = ai + 1
    /\ linkTasks' = Unfinished(linkTasks)
    /\ dlTasks' = Unfinished(dlTasks)
    /\ photos' = <<>>
    /\ failed_list' = <<>>
    /\ pc' = "albums"
    /\ UNCHANGED <<args, end, page, albums, listed, attempted, fsVars,
                   albumLog, interrupted>>

----------------------------------------------------------------------------
(* KeyboardInterrupt, lines 187-190.                                       *)

Running == pc \notin {"done", "returned", "unwind", "stopped"}

\* A variant of Interrupt in which a handler of main catches the interrupt
\* and main goes on.
InterruptCaught ==
    /\ Running /\ ~interrupted
    /\ interrupted' = TRUE
    /\ UNCHANGED <<args, end, pc, loopVars, poolVars, fsVars, albumLog>>

\* The interrupt is raised in the main thread, wherever it is: no handler
\* of main catches it (they catch Exception), the with blocks are left.
Interrupt ==
    /\ Running /\ ~interrupted
    /\ interrupted' = TRUE
    /\ pc' = "unwind"
    /\ UNCHANGED <<args, end, loopVars, poolVars, fsVars, albumLog>>

\* Another interrupt while main waits in shutdown(wait=True) for the tasks
\* of the pool: the wait is left, the program prints and ends; the workers
\* go on with the tasks submitted.
InterruptAgain ==
    /\ pc = "unwind"
    /\ ~(PoolDrained(linkTasks) /\ PoolDrained(dlTasks))
    /\ pc' = "stopped"
    /\ UNCHANGED <<args, end, loopVars, poolVars, fsVars, albumLog, interrupted>>

\* The pools' shutdown(wait=True) have returned: the program prints and ends.
Unwind ==
    /\ pc = "unwind"
    /\ PoolDrained(linkTasks) /\ PoolDrained(dlTasks)
    /\ pc' = "stopped"
    /\ UNCHANGED <<args, end, loopVars, poolVars, fsVars, albumLog, interrupted>>

----------------------------------------------------------------------------

Next ==
    \/ EndGiven
    \/ DiscoverFetch
    \/ DiscoverMax
    \/ DiscoverFail
    \/ LoopEnd
    \/ ListingOk
    \/ ListingFail
    \/ AlbumsEnd
    \/ ResolveOk
    \/ \E u \in ToSubmit : LinkSubmit(u)
    \/ ResolveFail
    \/ \E t \in linkTasks : LinkStart(t)
    \/ \E t \in linkTasks : LinkFetchOk(t)
    \/ \E t \in linkTasks : LinkFetchFail(t)
    \/ LinkAsCompleted
    \/ \E t \in linkTasks : LinkCollect(t)
    \/ \E path \in MkdirPaths : MkdirParent(path)
    \/ SaveBegin
    \/ DlSubmit
    \/ \E path \in MkdirPaths : MkdirFail(path)
    \/ \E t \in dlTasks : DlStart(t)
    \/ \E t \in dlTasks : DlRequestFail(t)
    \/ \E t \in dlTasks : DlOpen(t)
    \/ \E t \in dlTasks : DlAttemptOk(t)
    \/ \E t \in dlTasks : DlOpenFail(t)
    \/ \E t \in dlTasks : DlWriteFail(t)
    \/ \E t \in dlTasks : DlWake(t)
    \/ \E t \in dlTasks : DlCollect(t)
    \/ SaveEnd
    \/ SidecarOpen
    \/ SidecarWrite
    \/ SidecarOk
    \/ SidecarOpenFail
    \/ SidecarWriteFail
    \/ AlbumNext
    \/ Interrupt
    \/ InterruptAgain
    \/ Unwind

Spec == Init /\ [][Next]_vars

----------------------------------------------------------------------------
(* Properties.                                                             *)

\* Every attempt of a task raised.
AllFailed(t) == t.st = "done" /\ Len(t.errs) = Retries

\* The line of failed.txt for a task all of whose attempts raised.
LineOf(t) == t.url \o <<" ", "|", " ">> \o t.errs[Len(t.errs)]

\* The attempts a task has finished: those that raised and the one that did not.
AttemptsMade(t) == Len(t.errs) + (IF t.st = "done" /\ t.res[1] THEN 1 ELSE 0)

RangeSeq(a, b) == [i \in 1..(IF b >= a THEN b - a + 1 ELSE 0) |-> a + i - 1]

\* C1: a URL is attempted at most Retries times (an attempt is begun only
\* while fewer than Retries have raised), and a task whose attempts all
\* raised returns False with "url | reason" of the last attempt.
C1_AtMostRetriesLastReason ==
    \A t \in dlTasks :
        /\ AttemptsMade(t) <= Retries
        /\ t.st \in {"running", "sleeping"} => Len(t.errs) < Retries
        /\ (t.st = "done" /\ ~t.res[1]) =>
              /\ Len(t.errs) = Retries
              /\ t.res[2] = t.url \o <<" ", "|", " ">> \o t.errs[Retries]

\* A task returned a failure whose first and last attempts raised differently.
C1_Witness ==
    \E t \in dlTasks :
        /\ t.st = "done" /\ ~t.res[1]
        /\ t.errs[1] # t.errs[Retries]

\* C2: once the download tasks of an entry have all finished, the files they
\* created are as many as the tasks that returned success, and the numeric
\* prefixes of the created files are distinct and within 1..len(photos).
C2_FilesEqualSuccesses ==
    (pc = "download" /\ PoolJoined(Own(dlTasks))) =>
        LET created == UNION {t.wrote : t \in Own(dlTasks)}
            prefix(f) == IntOf(FirstDigits(SubSeq(f, Len(PathJoin(FolderOf(albums[ai].title), <<>>)) + 1,
                                           Len(f))))
        IN  /\ Cardinality(created) = Cardinality({t \in Own(dlTasks) : t.res[1]})
            /\ \A f, g \in created : prefix(f) = prefix(g) => f = g
            /\ \A f \in created : prefix(f) \in 1..Len(photos)

\* The part of C2 that the code keeps: the prefixes of the files an entry
\* creates are distinct and within 1..len(photos), and every task that
\* returned success created its file.
C2_PrefixesUniqueInRange ==
    LET created == UNION {t.wrote : t \in Own(dlTasks)}
        prefix(f) == IntOf(FirstDigits(SubSeq(f, Len(PathJoin(FolderOf(albums[ai].title), <<>>)) + 1,
                                           Len(f))))
    IN  /\ \A f, g \in created : prefix(f) = prefix(g) => f = g
        /\ \A f \in created : prefix(f) \in 1..Len(photos)
        /\ \A t \in Own(dlTasks) : (t.st = "done" /\ t.res[1]) => t.wrote # {}

\* C3: whatever the order in which the tasks run and finish, and on a re-run,
\* the task of position i (1-based) of photos writes only to the file named
\* by i padded to three digits and the extension of its URL, in the folder
\* of the entry; positions are distinct.
C3_NameFromPositionOnly ==
    \A t \in Own(dlTasks) :
        /\ t.idx + 1 \in 1..Len(photos)
        /\ photos[t.idx + 1] = t.url
        /\ \A u \in Own(dlTasks) : u.idx = t.idx => u = t
        /\ \A f \in t.wrote :
              f = PathJoin(FolderOf(albums[ai].title), Pad3(t.idx + 1) \o ExtOf(t.url))

\* A task submitted later has written and finished while one submitted
\* before it has not finished.
C3_Witness ==
    \E t, u \in Own(dlTasks) :
        /\ t.idx < u.idx
        /\ u.st = "done" /\ u.wrote # {}
        /\ t.st # "done"

\* C4: the page URLs of an entry, one task each, contain the base URL; with
\* no pagination anchor on the base page they are the base URL alone and one
\* task is submitted.
C4_PageSetHasBase ==
    pc = "links" =>
        LET base == RStripSlash(albums[ai].url)
            urls == {t.url : t \in Own(linkTasks)}
        IN  /\ base \in urls
            /\ AnchorsOf(base) = <<>> =>
                  (urls = {base} /\ Cardinality(Own(linkTasks)) = 1)

\* An entry without pagination anchors has its one task submitted.
C4_Witness ==
    /\ pc = "links"
    /\ AnchorsOf(RStripSlash(albums[ai].url)) = <<>>
    /\ Cardinality(Own(linkTasks)) = 1

\* C5: failed.txt is written by save_photos only; what it receives are lines
\* "url | reason" of tasks all of whose attempts raised, each at most once;
\* when save_photos returns, failed.txt was not touched if no task failed, and
\* otherwise holds exactly one line for each task all of whose attempts
\* raised and none for a task that succeeded.
C5_OneLinePerFailedUrl ==
    [][LET folder == FolderOf(albums[ai].title)
           failed == {t \in Own(dlTasks) : AllFailed(t)}
       IN  /\ failedTxt' # failedTxt =>
                 /\ pc \in {"download", "sidecar"}
                 /\ \A d \in DOMAIN failedTxt' :
                       d # folder => (d \in DOMAIN failedTxt /\ failedTxt'[d] = failedTxt[d])
                 /\ \A i \in 1..Len(failedTxt'[folder]) :
                       /\ \E t \in failed : failedTxt'[folder][i] = LineOf(t)
                       /\ \A j \in 1..Len(failedTxt'[folder]) :
                             failedTxt'[folder][j] = failedTxt'[folder][i] => j = i
           /\ (pc \in {"download", "sidecar"} /\ pc' = "pause") =>
                 IF failed = {} THEN failedTxt' = failedTxt
                 ELSE /\ Len(failedTxt'[folder]) = Cardinality(failed)
                      /\ \A t \in failed :
                            \E i \in 1..Len(failedTxt'[folder]) :
                                failedTxt'[folder][i] = LineOf(t)
      ]_vars

\* save_photos has returned; one task succeeded on its third attempt and has
\* no line, another failed three times and has the only line of failed.txt.
C5_Witness ==
    /\ pc = "pause"
    /\ \E t, u \in Own(dlTasks) :
          /\ t.res[1] /\ Len(t.errs) = Retries - 1
          /\ ~u.res[1]
          /\ failedTxt[FolderOf(albums[ai].title)] = <<LineOf(u)>>

\* C6: with end <= 0 the end page becomes the largest number the pagination
\* widget of the first listing page shows, 1 when it shows none; the pages
\* then requested are start, start + 1, ... in this order, none beyond end,
\* and all of them up to end when main finishes.
C6_DiscoveredRange ==
    [][/\ (pc = "total_pages" /\ pc' = "loop") =>
              \A k \in 0..MaxPage :
                  soup = PagerOf(k) => end' = (IF k = 0 THEN 1 ELSE k)
       /\ (discovered' /\ listed' # listed) =>
              /\ listed' = Append(listed, start + Len(listed))
              /\ start + Len(listed) <= end
       /\ (discovered' /\ pc' = "done") => listed' = RangeSeq(start, end)
      ]_vars

\* The end page was discovered as MaxPage and main, started at page 1, has
\* finished after requesting every page 1..MaxPage.
C6_Witness ==
    /\ discovered /\ pc = "done"
    /\ start = 1 /\ end = MaxPage /\ MaxPage > 1
    /\ listed = RangeSeq(1, MaxPage)

\* C7: without an interrupt main ends only by exhausting the page range,
\* having requested every listing page of it.
C7_NeverAbortsGlobally ==
    (pc \in {"done", "returned", "stopped"} /\ ~interrupted) =>
        (pc = "done" /\ end >= 1 /\ listed = RangeSeq(start, end))

\* C8: a listing page that cannot be fetched is skipped and the loop goes to
\* the next page; after the exception of an entry the loop goes to the next
\* entry of the same page; the entries of a fetched page are started one by
\* one in order, each once, and the page is left only when all were started.
C8_FailureIsolation ==
    [][/\ (pc = "loop" /\ listed' # listed) =>
              /\ listed' = Append(listed, page)
              /\ \/ pc' = "albums" /\ page' = page /\ ai' = 1
                 \/ pc' = "loop" /\ page' = page + 1
       /\ (pc = "except" /\ pc' # pc /\ ~interrupted') =>
              (pc' = "albums" /\ ai' = ai + 1 /\ page' = page /\ albums' = albums)
       /\ (attempted' # attempted /\ attempted' # <<>>) =>
              /\ attempted' = Append(attempted, Len(attempted) + 1)
              /\ ai = Len(attempted) + 1 /\ ai <= Len(albums)
       /\ (pc = "albums" /\ pc' = "loop") =>
              (attempted = RangeSeq(1, Len(albums)) /\ page' = page + 1)
      ]_vars

\* The first entry of page 1 failed before its folder was made, and the
\* second entry of the page is being processed.
C8_Witness ==
    /\ pc = "links" /\ page = 1 /\ ai = 2
    /\ attempted = <<1, 2>>
    /\ dirs = {}

\* C9: every task that has not finished belongs to the entry main is
\* processing, and main is inside that entry; download tasks exist only when
\* the link tasks of the entry have finished.
C9_OneEntryAtATime ==
    /\ \A t \in Unfinished(linkTasks) :
          t.owner = Owner
          /\ pc \in {"submit_links", "as_completed", "links", "unwind", "stopped"}
    /\ \A t \in Unfinished(dlTasks) :
          t.owner = Owner /\ pc \in {"submit", "download", "unwind", "stopped"}
    /\ Unfinished(dlTasks) # {} => Unfinished(linkTasks) = {}

\* A download of the second entry of page 1 is running after the first entry
\* of the page wrote its files.
C9_Witness ==
    /\ page = 1 /\ ai = 2 /\ pc = "download"
    /\ DOMAIN files # {}
    /\ \E t \in Own(dlTasks) : t.st = "running" /\ t.wrote = {}
    /\ \A t \in Own(dlTasks) : t.wrote = {}

\* C10: the folder of an entry exists from the first submit of its downloads
\* on, so does the folder of every download task and the directory of every
\* image file; and an entry whose folder (or the root above it) could not be
\* made fails with no download task.
C10_FolderBeforeDownloads ==
    /\ pc \in {"submit", "download", "sidecar", "pause"}
          => DirName(FolderOf(albums[ai].title)) \in dirs
    /\ \A t \in dlTasks : DirName(t.folder) \in dirs
    /\ \A f \in DOMAIN files : DirName(PathSplit(f)[1]) \in dirs
    /\ (/\ pc = "except"
        /\ \E path \in {Root, FolderOf(albums[ai].title)} :
               albumLog = <<albums[ai].title, OsError(path)>>)
          => Own(dlTasks) = {}

\* os.makedirs made the root and failed on the folder of an entry with
\* photos: the entry failed, the root is there and the folder is not.
C10_Witness ==
    /\ pc = "except"
    /\ albumLog = <<albums[ai].title, OsError(FolderOf(albums[ai].title))>>
    /\ photos # <<>>
    /\ dirs = {Root}


----------------------------------------------------------------------------
(* download_image on drawn URLs: save_photos called from main with one     *)
(* photo, the URL an image host serves for a file name followed by up to   *)
(* MaxTail more characters.                                                *)

\* The longest tail drawn after the file name of a URL.
MaxTail == 2

TailChars == {"?", ".", "/", "x"}

RECURSIVE TailsUpTo(_)
TailsUpTo(n) ==
    IF n = 0 THEN {<<>>}
    ELSE TailsUpTo(n - 1)
         \cup {Append(s, c) : s \in {r \in TailsUpTo(n - 1) : Len(r) = n - 1},
                              c \in TailChars}

Stems == {<<"p">>, <<"p", ".", "P", "N", "G">>, <<"p", ".", "j", "p", "e", "g", "2">>}

ExtUrls == {ImgHost \o stem \o tail : stem \in Stems, tail \in TailsUpTo(MaxTail)}

\* The entry of a card whose title is blank: its folder is the root.
ExtEntry == EntriesOf(<<Card(<<"t">>, TRUE, <<"\n">>)>>)[1]

\* main has listed page 1, get_all_photos has returned [u] for its one entry.
InitExt ==
    /\ start = 1 /\ end = 1 /\ discovered = FALSE /\ soup = <<>>
    /\ link_max_workers = LinkWorkers /\ dl_max_workers = DlWorkers
    /\ pc = "links" /\ page = 1
    /\ albums = <<ExtEntry>> /\ ai = 1
    /\ listed = <<1>> /\ attempted = <<1>>
    /\ \E u \in ExtUrls :
          /\ photos = <<u>>
          /\ linkTasks = {[LinkTask(<<1, 1>>, 0, BaseOf(ExtEntry))
                              EXCEPT !.st = "done", !.res = <<u>>, !.fin = 1, !.got = TRUE]}
    /\ dlTasks = {} /\ failed_list = <<>>
    /\ dirs = {} /\ files = <<>> /\ failedTxt = <<>>
    /\ albumLog = NoLog /\ interrupted = FALSE

NextExt ==
    \/ SaveBegin
    \/ DlSubmit
    \/ \E path \in MkdirPaths : MkdirFail(path)
    \/ \E t \in dlTasks : DlStart(t)
    \/ \E t \in dlTasks : DlRequestFail(t)
    \/ \E t \in dlTasks : DlOpen(t)
    \/ \E t \in dlTasks : DlAttemptOk(t)
    \/ \E t \in dlTasks : DlOpenFail(t)
    \/ \E t \in dlTasks : DlWriteFail(t)
    \/ \E t \in dlTasks : DlWake(t)
    \/ \E t \in dlTasks : DlCollect(t)
    \/ SaveEnd
    \/ SidecarOpen
    \/ SidecarWrite
    \/ SidecarOk
    \/ SidecarOpenFail
    \/ SidecarWriteFail
    \/ AlbumNext
    \/ AlbumsEnd
    \/ LoopEnd
    \/ Interrupt
    \/ InterruptAgain
    \/ Unwind

SpecExt == InitExt /\ [][NextExt]_vars

\* The extension the claim describes: that of the URL with its query string
\* removed, kept when it has at most 4 characters after the dot.
PathExt(url) ==
    LET ext == SplitExt(BeforeQuery(url))
    IN  IF ext # <<>> /\ Len(ext) - 1 <= 4 THEN ext ELSE DefaultExt

\* C11: every file download_image opens is named by the position and the
\* extension of the URL's path with the query string stripped (case kept)
\* when that has at most 4 characters after the dot, and .jpg otherwise.
C11_ExtensionOfPath ==
    \A t \in dlTasks :
        \A f \in t.wrote :
            f = PathOf(t.folder, Pad3(t.idx + 1) \o PathExt(t.url))


----------------------------------------------------------------------------
(* get_all_photos and save_photos with their max_workers drawn: main's     *)
(* steps on a page whose one entry is the gallery, with pools of the sizes *)
(* main asks for (the defaults, 1 and 3) and of the other sizes up to      *)
(* MaxLinkWorkers and DlWorkers.                                           *)

\* The most threads drawn for the pool of get_all_photos.
MaxLinkWorkers == 2

GalleryEntry == EntriesOf(<<Card(HrefG, TRUE, <<"g", "\r", "\n">>)>>)[1]

InitPool ==
    /\ start = 1 /\ end = 1 /\ discovered = FALSE /\ soup = <<>>
    /\ link_max_workers \in 1..MaxLinkWorkers
    /\ dl_max_workers \in 1..DlWorkers
    /\ pc = "albums" /\ page = 1
    /\ albums = <<GalleryEntry>> /\ ai = 1
    /\ listed = <<1>> /\ attempted = <<>>
    /\ linkTasks = {} /\ photos = <<>>
    /\ dlTasks = {} /\ failed_list = <<>>
    /\ dirs = {} /\ files = <<>> /\ failedTxt = <<>>
    /\ albumLog = NoLog /\ interrupted = FALSE

\* The steps of main from the entries of a listed page on.
NextPool ==
    \/ ResolveOk
    \/ \E u \in ToSubmit : LinkSubmit(u)
    \/ ResolveFail
    \/ \E t \in linkTasks : LinkStart(t)
    \/ \E t \in linkTasks : LinkFetchOk(t)
    \/ \E t \in linkTasks : LinkFetchFail(t)
    \/ LinkAsCompleted
    \/ \E t \in linkTasks : LinkCollect(t)
    \/ \E path \in MkdirPaths : MkdirParent(path)
    \/ SaveBegin
    \/ DlSubmit
    \/ \E path \in MkdirPaths : MkdirFail(path)
    \/ \E t \in dlTasks : DlStart(t)
    \/ \E t \in dlTasks : DlRequestFail(t)
    \/ \E t \in dlTasks : DlOpen(t)
    \/ \E t \in dlTasks : DlAttemptOk(t)
    \/ \E t \in dlTasks : DlOpenFail(t)
    \/ \E t \in dlTasks : DlWriteFail(t)
    \/ \E t \in dlTasks : DlWake(t)
    \/ \E t \in dlTasks : DlCollect(t)
    \/ SaveEnd
    \/ SidecarOpen
    \/ SidecarWrite
    \/ SidecarOk
    \/ SidecarOpenFail
    \/ SidecarWriteFail
    \/ AlbumNext
    \/ AlbumsEnd
    \/ LoopEnd
    \/ Interrupt
    \/ InterruptAgain
    \/ Unwind

SpecPool == InitPool /\ [][NextPool]_vars


----------------------------------------------------------------------------
\* The tasks of an entry's pool that hold a worker thread.
InFlight(tasks, owner, busy) == {t \in tasks : t.owner = owner /\ t.st \in busy}

----------------------------------------------------------------------------
RECURSIVE Flatten(_)
Flatten(seqs) == IF seqs = <<>> THEN <<>> ELSE Head(seqs) \o Flatten(Tail(seqs))

\* The orders in which the tasks of a set can be taken, each once.
OrdersOf(tasks) ==
    {f \in [1..Cardinality(tasks) -> tasks] :
        \A i, j \in 1..Cardinality(tasks) : f[i] = f[j] => i = j}

\* The tasks of a set in the order in which they finished.
ByCompletion(tasks) ==
    CHOOSE f \in OrdersOf(tasks) : \A i, j \in DOMAIN f : i < j => f[i].fin < f[j].fin

\* What a page contributes: nothing when its fetch failed, else its images.
PageImages(t) == IF t.err THEN <<>> ELSE ImagesOf(SrcsOf(t.url))

\* The images of the pages as_completed has yielded, the pages in the order
\* their tasks finished.
InCompletionOrder ==
    LET f == ByCompletion({t \in Own(linkTasks) : t.got})
    IN  Flatten([i \in DOMAIN f |-> PageImages(f[i])])

\* C13: once the base page is fetched no failure of a page aborts the
\* entry (main's except is never reached while a task of the entry has not
\* been collected); every task runs and is collected before get_all_photos
\* returns; a failed page gives the empty list; photos is the images of the
\* pages fetched, each page's images together and in page order, the pages
\* in the order their tasks finished.
C13_SubPageFailureContained ==
    /\ pc = "except" => PoolJoined(Own(linkTasks))
    /\ pc \in {"makedirs", "submit", "download", "sidecar", "pause"}
          => PoolJoined(Own(linkTasks))
    /\ \A t \in linkTasks : t.st = "done" => t.res = PageImages(t)
    /\ photos = InCompletionOrder

\* The part of C13 that the code keeps: the same with the pages in the
\* order as_completed yielded them.
C13_InYieldOrder ==
    /\ pc = "except" => PoolJoined(Own(linkTasks))
    /\ pc \in {"makedirs", "submit", "download", "sidecar", "pause"}
          => PoolJoined(Own(linkTasks))
    /\ \A t \in linkTasks : t.st = "done" => t.res = PageImages(t)
    /\ \E f \in OrdersOf({t \in Own(linkTasks) : t.got}) :
          photos = Flatten([i \in DOMAIN f |-> PageImages(f[i])])


----------------------------------------------------------------------------
\* res is a Failure of url: (False, "<url> | <reason>") with a reason.
IsFailure(res, url) ==
    /\ Len(res) = 2
    /\ res[1] = FALSE
    /\ IsPrefix(url \o <<" ", "|", " ">>, res[2])
    /\ Len(res[2]) > Len(url) + 3

\* C14: a download task that has ended has one result, Success of its URL
\* or Failure of its URL with a reason, and a task that has not ended has
\* none; when save_photos has collected its pool there is one collected
\* task per position of photos and one line of failed_list per Failure;
\* main's except is never reached while a download of the entry has not
\* been collected (a failure cancels nothing).
C14_OneResultPerUrl ==
    /\ \A t \in dlTasks :
          IF t.st = "done"
          THEN t.res = Success(t.url) \/ IsFailure(t.res, t.url)
          ELSE t.res = <<>>
    /\ (pc \in {"sidecar", "pause", "except"}
           \/ (pc = "download" /\ PoolJoined(Own(dlTasks))))
          => /\ PoolJoined(Own(dlTasks))
             /\ Own(dlTasks) # {} =>
                   /\ \A i \in 1..Len(photos) :
                         Cardinality({t \in Own(dlTasks) :
                                         t.idx = i - 1 /\ t.url = photos[i]}) = 1
                   /\ Cardinality(Own(dlTasks)) = Len(photos)
                   /\ Len(failed_list)
                         = Cardinality({t \in Own(dlTasks) : ~t.res[1]})

\* save_photos has returned with one Failure and one Success collected.
C14_Witness ==
    /\ pc = "pause"
    /\ \E t, u \in Own(dlTasks) :
          /\ t.got /\ IsFailure(t.res, t.url)
          /\ u.got /\ u.res = Success(u.url)

\* C15: a task reports Success only when its last attempt wrote the whole
\* body to its file: the file it names is complete.
C15_SuccessMeansComplete ==
    \A t \in dlTasks :
        (t.st = "done" /\ t.res = Success(t.url))
            => /\ TargetOf(t) \in t.wrote
               /\ TargetOf(t) \in DOMAIN files
               /\ files[TargetOf(t)] = "complete"

\* A Success whose earlier attempt was interrupted while writing.
C15_Witness ==
    \E t \in dlTasks :
        /\ t.st = "done" /\ t.res = Success(t.url)
        /\ \E i \in 1..Len(t.errs) : t.errs[i] = IoErr
        /\ files[TargetOf(t)] = "complete"


----------------------------------------------------------------------------
\* C16: when save_photos has returned for an entry, failed.txt is in the
\* entry's folder only if a download of this processing of the folder ended
\* in Failure.
C16_SidecarOnlyAfterFailure ==
    pc = "pause"
        => (FolderOf(albums[ai].title) \in DOMAIN failedTxt
               => \E t \in Own(dlTasks) : IsFailure(t.res, t.url))


----------------------------------------------------------------------------
\* failed.txt of the entry's folder holds the lines of failed_list.
SidecarWritten(txt) ==
    /\ FolderOf(albums[ai].title) \in DOMAIN txt
    /\ txt[FolderOf(albums[ai].title)] = failed_list

\* C17: when save_photos ends with failures to record, either failed.txt
\* was written whole and closed, or main logs the entry's title with the
\* error of failed.txt (that of the open, which names the file, or that of
\* a write or of the close); and after the log main goes on with the next
\* entry of the same page.
C17_SidecarErrorLogged ==
    [][/\ (/\ pc \in {"download", "sidecar"}
           /\ pc' \notin {"download", "sidecar", "unwind"}
           /\ failed_list # <<>>)
          => \/ pc' = "pause" /\ SidecarWritten(failedTxt')
             \/ /\ pc' = "except"
                /\ \E err \in {OsError(SidecarOf(FolderOf(albums[ai].title))), IoErr} :
                       albumLog' = <<albums[ai].title, err>>
       /\ (pc = "except" /\ pc' \notin {"except", "unwind"})
          => /\ pc' = "albums" /\ ai' = ai + 1 /\ page' = page
             /\ albums' = albums]_vars

\* The error of the close of failed.txt, after every line was handed to it,
\* is logged for an entry that is not the last of its page.
C17_Witness ==
    /\ pc = "except"
    /\ ai < Len(albums)
    /\ failed_list # <<>>
    /\ SidecarWritten(failedTxt)
    /\ albumLog = <<albums[ai].title, IoErr>>


----------------------------------------------------------------------------
\* The futures of a pool, without their progress.
Submitted(tasks) == {<<t.owner, t.url>> : t \in tasks}

\* C18: after the interrupt main fetches no listing page and starts no
\* entry: the pages fetched, the entries started and the entry in progress
\* stay as they are, no task is submitted, and the tasks that go on are
\* those of the entry in progress.
C18_NothingStartedAfterInterrupt ==
    [][interrupted
          => /\ listed' = listed /\ attempted' = attempted
             /\ page' = page /\ ai' = ai /\ albums' = albums
             /\ pc' \in {"unwind", "stopped"}
             /\ Submitted(linkTasks') = Submitted(linkTasks)
             /\ Submitted(dlTasks') = Submitted(dlTasks)
             /\ \A t \in linkTasks \cup dlTasks : t.owner = Owner]_vars

\* The interrupt came while save_photos was submitting the downloads of an
\* entry and another page was to follow, and another interrupt ended the
\* wait for the pool: the program has ended, a download of the entry has
\* its file open, and the rest of the photos was never submitted.
C18_Witness ==
    /\ interrupted /\ pc = "stopped"
    /\ page < end
    /\ \E t \in Own(dlTasks) : t.st = "running" /\ t.opened
    /\ Cardinality(Own(dlTasks)) < Len(photos)


----------------------------------------------------------------------------
\* u is the future t one step later.
SameFuture(t, u) == t.owner = u.owner /\ t.idx = u.idx

\* C19: within download_image nothing follows a result: a task that has
\* returned makes no attempt, writes nothing and keeps its result; the task
\* sleeps only after a failed attempt that is not the last one, and does so
\* after each of them; what follows a sleep is the next attempt; the last
\* failed attempt and a good attempt end the task without a sleep.
C19_SleepOnlyBetweenAttempts ==
    [][\A t \in dlTasks : \A u \in dlTasks' :
          SameFuture(t, u) =>
             /\ t.st = "done" => u = [t EXCEPT !.got = u.got]
             /\ (u.st = "sleeping" /\ t.st # "sleeping")
                   => /\ t.st = "running"
                      /\ Len(u.errs) = Len(t.errs) + 1
                      /\ Len(u.errs) < Retries
             /\ (t.st = "sleeping" /\ u.st # "sleeping")
                   => u.st = "running" /\ u.errs = t.errs
             /\ (t.st = "running" /\ u.errs # t.errs)
                   => /\ Len(u.errs) = Len(t.errs) + 1
                      /\ u.st = IF Len(u.errs) < Retries THEN "sleeping" ELSE "done"
             /\ (t.st = "running" /\ u.st = "done" /\ u.errs = t.errs)
                   => u.res = Success(t.url)
             /\ Len(u.errs) <= Retries]_vars

\* One task has returned its Failure after the last attempt; another sleeps
\* before its last attempt.
C19_Witness ==
    \E t, u \in dlTasks :
        /\ t.st = "done" /\ Len(t.errs) = Retries /\ IsFailure(t.res, t.url)
        /\ u.st = "sleeping" /\ Len(u.errs) = Retries - 1


----------------------------------------------------------------------------
(* Termination. Every network call returns or times out, every sleep ends  *)
(* and the threads are scheduled: a step that can be taken is taken.       *)

LiveSpec == Init /\ [][Next]_vars /\ WF_vars(Next)

\* main has returned, or the interrupt handler has printed.
Terminated == pc \in {"done", "returned", "stopped"}

\* The largest number of a set of naturals, 0 for the empty set.
Max(S) == IF S = {} THEN 0 ELSE CHOOSE n \in S : \A m \in S : m <= n

\* The site as main meets it: the entries of its listing pages, the pages
\* of an entry, and the images of a set of pages.
SiteEntries ==
    UNION {{EntriesOf(CardsOf(p))[i] : i \in 1..Len(EntriesOf(CardsOf(p)))} :
              p \in 1..MaxPage}

SitePages(item) == PageUrls(item, AnchorsOf(BaseOf(item)))

RECURSIVE ImagesAt(_)
ImagesAt(urls) ==
    IF urls = {} THEN 0
    ELSE LET u == CHOOSE x \in urls : TRUE
         IN  Len(ImagesOf(SrcsOf(u))) + ImagesAt(urls \ {u})

MaxEntries == Max({Len(EntriesOf(CardsOf(p))) : p \in 1..MaxPage})
MaxUrls == Max({Cardinality(SitePages(e)) : e \in SiteEntries})
MaxPhotos == Max({ImagesAt(SitePages(e)) : e \in SiteEntries})

\* The steps a download task can still take: it is started, and each of
\* its attempts opens the file, ends, and is followed by a sleep.
DlSteps == 3 * Retries + 1

DlRank(t) ==
    IF t.st = "pending" THEN DlSteps
    ELSE IF t.st = "running"
    THEN 3 * (Retries - Len(t.errs)) - (IF t.opened THEN 1 ELSE 0)
    ELSE IF t.st = "sleeping" THEN 3 * (Retries - Len(t.errs)) + 1
    ELSE 0

RECURSIVE DlRankSum(_)
DlRankSum(tasks) ==
    IF tasks = {} THEN 0
    ELSE LET t == CHOOSE x \in tasks : TRUE
         IN  DlRank(t) + DlRankSum(tasks \ {t})

\* The steps the link tasks can still take: started, then fetched.
LinkRankSum ==
    2 * Cardinality({t \in linkTasks : t.st = "pending"})
        + Cardinality({t \in linkTasks : t.st = "running"})

\* The steps save_photos can still take itself once the folder is made,
\* with n photos of which unsub are not submitted and waiting futures not
\* yielded: a submit and the steps of its task for each photo to submit,
\* the futures to yield, then failed.txt with a line for each photo.
SaveRank(n, unsub, waiting) == 3 + n + waiting + unsub * (DlSteps + 2)

\* The steps main can still take inside the entry it is processing.
EntryRank ==
    LET waitingLinks == Cardinality({t \in Own(linkTasks) : ~t.got})
        waitingDls   == Cardinality({t \in Own(dlTasks) : ~t.got})
        saveMax      == SaveRank(MaxPhotos, MaxPhotos, 0)
    IN  IF pc = "submit_links"
        THEN 3 + saveMax + waitingLinks + 4 * Cardinality(ToSubmit)
        ELSE IF pc = "as_completed" THEN 3 + saveMax + waitingLinks
        ELSE IF pc = "links" THEN 2 + saveMax + waitingLinks
        ELSE IF pc = "makedirs" THEN 1 + saveMax
        ELSE IF pc \in {"submit", "download"}
        THEN SaveRank(Len(photos), Len(photos) - Cardinality(Own(dlTasks)), waitingDls)
        ELSE IF pc = "sidecar"
        THEN 2 + Len(failed_list) - Len(failedTxt[FolderOf(albums[ai].title)])
        ELSE IF pc \in {"pause", "except"} THEN 1
        ELSE 0

\* More than the steps of main inside any entry of the site, and more than
\* its steps on any listing page.
EntryCost == 4 + SaveRank(MaxPhotos, MaxPhotos, 0) + 4 * MaxUrls
PageCost == MaxEntries * EntryCost + 2

\* The steps main can still take on the pages from page n on, and to end.
PagesRank(n) ==
    LET last == IF pc \in {"start", "total_pages"} /\ end <= 0 THEN MaxPage ELSE end
    IN  (IF last >= n THEN last - n + 1 ELSE 0) * PageCost + 2

\* The steps the main thread can still take.
MainRank ==
    IF pc = "start" THEN PagesRank(page) + 2
    ELSE IF pc = "total_pages" THEN PagesRank(page) + 1
    ELSE IF pc = "loop" THEN PagesRank(page)
    ELSE IF pc = "albums"
    THEN PagesRank(page + 1) + 1 + (Len(albums) - ai + 1) * EntryCost
    ELSE IF pc = "unwind" THEN 1
    ELSE IF Terminated THEN 0
    ELSE PagesRank(page + 1) + 1 + (Len(albums) - ai) * EntryCost + EntryRank

\* A bound of the steps the run can still take, those of the main thread
\* and those of the tasks of the pools.
Rank == MainRank + LinkRankSum + DlRankSum(dlTasks)

\* C20: a run of main terminates. Rank is a natural number that every step
\* makes smaller, whatever fails, and as long as main has not ended the
\* program can take a step of its own, with no interrupt: a run in which a
\* step that can be taken is taken (the network calls return, the sleeps
\* end) ends every entry's pipeline and main itself within Rank steps; and
\* main returns from the page loop only when the loop has passed the end
\* page.
C20_RunTerminates ==
    /\ [](Rank \in Nat)
    /\ [][Rank' < Rank]_vars
    /\ [](~Terminated => ENABLED <<Next /\ ~Interrupt /\ ~InterruptAgain>>_vars)
    /\ [](pc = "done" => page > end)

\* main, started at page 1, has returned after the loop passed the end page
\* MaxPage, an entry of the last page processed to its end.
C20_Witness ==
    /\ pc = "done" /\ page > end
    /\ start = 1 /\ listed = RangeSeq(1, MaxPage) /\ MaxPage > 1
    /\ attempted # <<>>
    /\ dirs # {}

====
